---- MODULE Spec2Model ----
(***************************************************************************)
(* A model of the XML backed module store                                  *)
(* (common/lib/xmodule/xmodule/modulestore/xml.py): XMLModuleStore         *)
(* walks the course directories of a data directory, parses each           *)
(* course.xml into descriptors through ImportSystem.process_xml, and       *)
(* serves read-only lookups.                                               *)
(*                                                                         *)
(* Strings are sequences of one-character strings, so that formatting      *)
(* ('{tag}_{count}') and Location.clean act on characters.  A piece of     *)
(* markup is represented by what the parser makes of it: an element        *)
(* (tag, attributes, child markup) or text that is not well-formed.        *)
(*                                                                         *)
(* Location, Location.clean, the descriptor registry and the on-demand     *)
(* resolution of a descriptor's children live in modules of the            *)
(* repository outside this excerpt; they are modelled after the            *)
(* specification (LocationClean, Location, ResolveClass, GetChildren).     *)
(***************************************************************************)
EXTENDS Integers, Sequences, FiniteSets, TLC

(***************************************************************************)
(* Bounds of the model.                                                    *)
(***************************************************************************)
\* children are not requested from a course whose unnamed counter reached
\* this value (a failing on-demand resolution can be repeated without end)
MaxCount == 4
\* number of nodes of a course tree below its root
MaxBelow == 3
\* number of course directories in the data directory
NumDirs == 2
\* children are not requested when their descriptors would make the store
\* exceed this number of descriptors
MaxDescs == 4
\* number of nodes below the root of a course tree whose nodes differ in how
\* their implementation is found
MaxTyped == 2
\* most nodes below the root of each of several courses side by side
MaxShared == 2
\* most nodes below the root of each of several courses whose nodes are
\* registered at the same locations
MaxColliding == 2

(***************************************************************************)
(* Strings.                                                                *)
(***************************************************************************)
Digits == <<"0", "1", "2", "3", "4", "5", "6", "7", "8", "9">>

\* str.format of a non-negative integer: its decimal digits
RECURSIVE Str(_)
Str(n) == IF n < 10 THEN <<Digits[n + 1]>>
          ELSE Str(n \div 10) \o <<Digits[(n % 10) + 1]>>

Underscore == <<"_">>

\* the characters the identifier grammar allows ([\w.-]) among those used
LegalChars == {"a", "b", "c", "e", "o", "p", "q", "r", "s", "u", "x",
               "0", "1", "2", "3", "4", "5", "6", "7", "8", "9",
               "_", ".", "-"}

\* Location.clean: every character that is illegal in a Location is
\* replaced by an underscore
LocationClean(value) ==
    [i \in 1..Len(value) |-> IF value[i] \in LegalChars THEN value[i] ELSE "_"]

CourseTag == <<"c", "o", "u", "r", "s", "e">>
DefaultOrg == <<"e", "d", "x">>

(***************************************************************************)
(* Markup.                                                                 *)
(***************************************************************************)
\* text that etree cannot parse
Malformed == [wf |-> FALSE]

Element(tag, attrib, children) ==
    [wf |-> TRUE, tag |-> tag, attrib |-> attrib, children |-> children]

NoAttrib == [k \in {} |-> <<>>]

\* xml_data.get(key) is not None
HasAttr(xml, key) == key \in DOMAIN xml.attrib

\* xml_data.set(key, value)
SetAttr(xml, key, value) ==
    [xml EXCEPT !.attrib = [k \in DOMAIN xml.attrib \cup {key} |->
                               IF k = key THEN value ELSE xml.attrib[k]]]

(***************************************************************************)
(* Locations and descriptors.                                              *)
(***************************************************************************)
\* revision = None
NoRevision == <<>>

\* Location(org, course, category, name) with no revision
Location(org, course, category, name) ==
    [org |-> org, course |-> course, category |-> category, name |-> name,
     revision |-> NoRevision]

\* the tags the descriptor registry has an implementation for
PTag == <<"p">>
QTag == <<"q">>
RegisteredTags == {CourseTag, PTag}

\* default_class = None
NoClass == <<>>

\* the dotted class names that importlib can load
GoodClass == <<"o", "k">>
BadClass == <<"b", "a", "d">>
LoadableClasses == {GoodClass}

\* the implementation of a node: its explicit class when it declares one,
\* else the registry entry of its tag, else the store's default class;
\* "PluginLoadError" / "UnresolvedTypeError" when there is none
ResolveClass(xml, default_class) ==
    IF HasAttr(xml, "class")
    THEN IF xml.attrib["class"] \in LoadableClasses
         THEN [exc |-> "none", class |-> xml.attrib["class"]]
         ELSE [exc |-> "PluginLoadError"]
    ELSE IF xml.tag \in RegisteredTags
    THEN [exc |-> "none", class |-> xml.tag]
    ELSE IF default_class /= NoClass
    THEN [exc |-> "none", class |-> default_class]
    ELSE [exc |-> "UnresolvedTypeError"]

(***************************************************************************)
(* ImportSystem: the state of one course's parse.                          *)
(***************************************************************************)
NewImportSystem(org, course) ==
    [org |-> org, course |-> course, unnamed_modules |-> 0, used_slugs |-> {}]

\* (variant: the counter and the slugs are attributes of the class, which
\* every ImportSystem shares)
ImportSystemOfClass(systems, course_dir, org, course) ==
    LET counts == {systems[d].unnamed_modules : d \in DOMAIN systems} \cup {0}
    IN  [d \in DOMAIN systems \cup {course_dir} |->
            IF d = course_dir
            THEN [org |-> org, course |-> course,
                  unnamed_modules |->
                      CHOOSE n \in counts : \A m \in counts : m <= n,
                  used_slugs |->
                      UNION {systems[e].used_slugs : e \in DOMAIN systems}]
            ELSE systems[d]]

\* ImportSystem(self): load_course makes the import system of its course
ImportSystem(systems, course_dir, org, course) ==
    [d \in DOMAIN systems \cup {course_dir} |->
        IF d = course_dir THEN NewImportSystem(org, course) ELSE systems[d]]

\* '{a}_{count}'.format(...)
Suffixed(a, count) == a \o Underscore \o Str(count)

\* (variant: an explicit slug that is already used gets the counter appended)
AssignSlugChecksExplicit(isys, xml) ==
    LET explicit == HasAttr(xml, "slug")
        named == HasAttr(xml, "name") /\ xml.attrib["name"] /= <<>>
        n1    == IF explicit \/ named THEN isys.unnamed_modules
                 ELSE isys.unnamed_modules + 1
        cand  == IF explicit THEN xml.attrib["slug"]
                 ELSE IF named THEN LocationClean(xml.attrib["name"])
                 ELSE Suffixed(xml.tag, n1)
        coll  == cand \in isys.used_slugs
        n2    == IF coll THEN n1 + 1 ELSE n1
        slug  == IF coll THEN Suffixed(cand, n2) ELSE cand
    IN  [isys |-> [isys EXCEPT !.unnamed_modules = n2,
                               !.used_slugs = @ \cup {slug}],
         xml  |-> SetAttr(xml, "slug", slug)]

\* (variant: the name of a node is its slug as it is written)
AssignSlugFromRawName(isys, xml) ==
    IF HasAttr(xml, "slug")
    THEN [isys |-> isys, xml |-> xml]
    ELSE LET named == HasAttr(xml, "name") /\ xml.attrib["name"] /= <<>>
             n1    == IF named THEN isys.unnamed_modules
                               ELSE isys.unnamed_modules + 1
             cand  == IF named THEN xml.attrib["name"]
                               ELSE Suffixed(xml.tag, n1)
             coll  == cand \in isys.used_slugs
             n2    == IF coll THEN n1 + 1 ELSE n1
             slug  == IF coll THEN Suffixed(cand, n2) ELSE cand
         IN  [isys |-> [isys EXCEPT !.unnamed_modules = n2,
                                    !.used_slugs = @ \cup {slug}],
              xml  |-> SetAttr(xml, "slug", slug)]

\* (variant: the used slugs are kept apart by tag)
AssignSlugPerTag(isys, xml) ==
    IF HasAttr(xml, "slug")
    THEN [isys |-> isys, xml |-> xml]
    ELSE LET named == HasAttr(xml, "name") /\ xml.attrib["name"] /= <<>>
             n1    == IF named THEN isys.unnamed_modules
                               ELSE isys.unnamed_modules + 1
             cand  == IF named THEN LocationClean(xml.attrib["name"])
                               ELSE Suffixed(xml.tag, n1)
             coll  == (xml.tag \o <<":">> \o cand) \in isys.used_slugs
             n2    == IF coll THEN n1 + 1 ELSE n1
             slug  == IF coll THEN Suffixed(cand, n2) ELSE cand
         IN  [isys |-> [isys EXCEPT !.unnamed_modules = n2,
                                    !.used_slugs =
                                        @ \cup {slug, xml.tag \o <<":">> \o slug}],
              xml  |-> SetAttr(xml, "slug", slug)]

\* (variant: a name attribute that is present is used, empty or not)
AssignSlugNameNotNone(isys, xml) ==
    IF HasAttr(xml, "slug")
    THEN [isys |-> isys, xml |-> xml]
    ELSE LET named == HasAttr(xml, "name")
             n1    == IF named THEN isys.unnamed_modules
                               ELSE isys.unnamed_modules + 1
             cand  == IF named THEN LocationClean(xml.attrib["name"])
                               ELSE Suffixed(xml.tag, n1)
             coll  == cand \in isys.used_slugs
             n2    == IF coll THEN n1 + 1 ELSE n1
             slug  == IF coll THEN Suffixed(cand, n2) ELSE cand
         IN  [isys |-> [isys EXCEPT !.unnamed_modules = n2,
                                    !.used_slugs = @ \cup {slug}],
              xml  |-> SetAttr(xml, "slug", slug)]

\* (variant: the counter counts every node that has no slug attribute)
AssignSlugCountsNamed(isys, xml) ==
    IF HasAttr(xml, "slug")
    THEN [isys |-> isys, xml |-> xml]
    ELSE LET named == HasAttr(xml, "name") /\ xml.attrib["name"] /= <<>>
             n1    == isys.unnamed_modules + 1
             cand  == IF named THEN LocationClean(xml.attrib["name"])
                               ELSE Suffixed(xml.tag, n1)
             coll  == cand \in isys.used_slugs
             n2    == IF coll THEN n1 + 1 ELSE n1
             slug  == IF coll THEN Suffixed(cand, n2) ELSE cand
         IN  [isys |-> [isys EXCEPT !.unnamed_modules = n2,
                                    !.used_slugs = @ \cup {slug}],
              xml  |-> SetAttr(xml, "slug", slug)]

\* process_xml, the slug of a node: an explicit slug is kept; else the
\* cleaned name, or '<tag>_<counter>' for a node without a name; a candidate
\* that is already used gets the (incremented) counter appended once
AssignSlug(isys, xml) ==
    IF HasAttr(xml, "slug")
    THEN [isys |-> isys, xml |-> xml]
    ELSE LET named == HasAttr(xml, "name") /\ xml.attrib["name"] /= <<>>
             n1    == IF named THEN isys.unnamed_modules
                               ELSE isys.unnamed_modules + 1
             cand  == IF named THEN LocationClean(xml.attrib["name"])
                               ELSE Suffixed(xml.tag, n1)
             coll  == cand \in isys.used_slugs
             n2    == IF coll THEN n1 + 1 ELSE n1
             slug  == IF coll THEN Suffixed(cand, n2) ELSE cand
         IN  [isys |-> [isys EXCEPT !.unnamed_modules = n2,
                                    !.used_slugs = @ \cup {slug}],
              xml  |-> SetAttr(xml, "slug", slug)]

\* (variant: a descriptor made without the default class of the store)
LoadFromXmlWithoutDefault(xml, isys, default_class, course_dir) ==
    LET c == ResolveClass(xml, NoClass)
    IN  IF c.exc /= "none" THEN [exc |-> c.exc]
        ELSE [exc |-> "none",
              desc |-> [location |-> Location(isys.org, isys.course,
                                              xml.tag, xml.attrib["slug"]),
                        class    |-> c.class,
                        data_dir |-> course_dir,
                        xml      |-> xml,
                        loaded   |-> xml.children = <<>>,
                        children |-> <<>>]]

\* (variant: a descriptor located by the name of its node when it has one)
LoadFromXmlLocatedByName(xml, isys, default_class, course_dir) ==
    LET c == ResolveClass(xml, default_class)
        name == IF HasAttr(xml, "name") THEN xml.attrib["name"]
                ELSE xml.attrib["slug"]
    IN  IF c.exc /= "none" THEN [exc |-> c.exc]
        ELSE [exc |-> "none",
              desc |-> [location |-> Location(isys.org, isys.course,
                                              xml.tag, name),
                        class    |-> c.class,
                        data_dir |-> course_dir,
                        xml      |-> xml,
                        loaded   |-> xml.children = <<>>,
                        children |-> <<>>]]

\* (variant: the metadata names the course, not its directory)
LoadFromXmlDataDirOfCourse(xml, isys, default_class, course_dir) ==
    LET c == ResolveClass(xml, default_class)
    IN  IF c.exc /= "none" THEN [exc |-> c.exc]
        ELSE [exc |-> "none",
              desc |-> [location |-> Location(isys.org, isys.course,
                                              xml.tag, xml.attrib["slug"]),
                        class    |-> c.class,
                        data_dir |-> isys.course,
                        xml      |-> xml,
                        loaded   |-> xml.children = <<>>,
                        children |-> <<>>]]

\* XModuleDescriptor.load_from_xml followed by the metadata injection: the
\* descriptor of a node that has its slug.  loaded: all its child markup
\* has been through process_xml (children then lists the locations).
\* A descriptor in descs has one more field, node: the position of its
\* markup in the course's document, <<1>> for the root
LoadFromXml(xml, isys, default_class, course_dir) ==
    LET c == ResolveClass(xml, default_class)
    IN  IF c.exc /= "none" THEN [exc |-> c.exc]
        ELSE [exc |-> "none",
              desc |-> [location |-> Location(isys.org, isys.course,
                                              xml.tag, xml.attrib["slug"]),
                        class    |-> c.class,
                        data_dir |-> course_dir,
                        xml      |-> xml,
                        loaded   |-> xml.children = <<>>,
                        children |-> <<>>]]

\* (variant: the unnamed counter is advanced before the markup is parsed)
ProcessXmlCountsUnparsed(text, isys, default_class, course_dir) ==
    IF ~text.wf
    THEN [exc |-> "XMLSyntaxError",
          isys |-> [isys EXCEPT !.unnamed_modules = @ + 1]]
    ELSE LET a == AssignSlug(isys, text)
             m == LoadFromXml(a.xml, a.isys, default_class, course_dir)
         IN  IF m.exc /= "none"
             THEN [exc |-> m.exc, isys |-> a.isys]
             ELSE [exc |-> "none", isys |-> a.isys, desc |-> m.desc]

\* process_xml up to the registration of the module: parse, slug, descriptor
ProcessXml(text, isys, default_class, course_dir) ==
    IF ~text.wf
    THEN [exc |-> "XMLSyntaxError", isys |-> isys]
    ELSE LET a == AssignSlug(isys, text)
             m == LoadFromXml(a.xml, a.isys, default_class, course_dir)
         IN  IF m.exc /= "none"
             THEN [exc |-> m.exc, isys |-> a.isys]
             ELSE [exc |-> "none", isys |-> a.isys, desc |-> m.desc]

(***************************************************************************)
(* The inputs: course directories, their course.xml, the constructor's     *)
(* arguments.                                                              *)
(***************************************************************************)
DirNames == << <<"c", "1">>, <<"c", "2">>, <<"c", "3">> >>
Dirs == {DirNames[i] : i \in 1..NumDirs}

NameA == <<"a">>
NameA1 == <<"a", " ", "1">>
OrgX == <<"o", "r", "g">>
CourseX == <<"x">>

Attr(key, value) == [k \in {key} |-> value]

\* the forests of n elements whose tags and attributes are drawn from labels
RECURSIVE Forests(_, _)
Forests(n, labels) ==
    IF n = 0 THEN {<<>>}
    ELSE UNION {{<<Element(l.tag, l.attrib, kids)>> \o rest :
                    l \in labels, kids \in Forests(k - 1, labels),
                    rest \in Forests(n - k, labels)} : k \in 1..n}

\* a course directory without course.xml, with a course.xml that cannot be
\* opened, or with a course.xml of the given text
Absent == [kind |-> "absent"]
Unreadable == [kind |-> "unreadable"]
File(text) == [kind |-> "file", text |-> text]

\* course trees for the store as a whole: few nodes, every kind of failure
P == Element(PTag, NoAttrib, <<>>)
Q == Element(QTag, NoAttrib, <<>>)
StoreRootAttribs == {NoAttrib,
                     [k \in {"org", "course"} |->
                         IF k = "org" THEN OrgX ELSE CourseX]}
StoreChildren == {<<>>, <<P>>, <<Q>>, <<P, Malformed>>}
StoreFiles ==
    {Absent, Unreadable, File(Malformed)} \cup
    {File(Element(CourseTag, a, c)) : a \in StoreRootAttribs, c \in StoreChildren}

\* course trees for one course: every shape of up to MaxBelow nodes below
\* the root, every way a node gets its slug
SlugAttribs == {NoAttrib, Attr("name", <<>>), Attr("name", NameA),
                Attr("name", NameA1), Attr("slug", NameA)}
SlugLabels == {[tag |-> PTag, attrib |-> a] : a \in SlugAttribs}
              \cup {[tag |-> QTag, attrib |-> Attr("name", NameA)]}
CourseFiles ==
    {File(Element(CourseTag, a, c)) :
        a \in {NoAttrib, Attr("name", NameA)},
        c \in UNION {Forests(n, SlugLabels) : n \in 0..MaxBelow}}

\* course trees for the implementations of nodes: a tag with or without a
\* registry entry, no class attribute or one that can or cannot be loaded
TypeLabels == {[tag |-> t, attrib |-> a] :
                  t \in {PTag, QTag},
                  a \in {NoAttrib, Attr("class", GoodClass), Attr("class", BadClass)}}
TypeFiles ==
    {File(Element(CourseTag, NoAttrib, c)) :
        c \in UNION {Forests(n, TypeLabels) : n \in 0..MaxTyped}}

\* course trees for several courses side by side: named and unnamed nodes,
\* the same in every course
SharedLabels == {[tag |-> PTag, attrib |-> a] :
                    a \in {NoAttrib, Attr("name", NameA)}}
SharedFiles ==
    {File(Element(CourseTag, NoAttrib, c)) :
        c \in UNION {Forests(n, SharedLabels) : n \in 0..MaxShared}}

\* course trees for courses whose nodes collide: the same explicit slug and
\* the same name over again, under roots that declare the same organization
\* and course or none
CollidingLabels == {[tag |-> PTag, attrib |-> a] :
                       a \in {Attr("slug", NameA), Attr("name", NameA)}}
CollidingFiles ==
    {File(Element(CourseTag, a, c)) :
        a \in StoreRootAttribs,
        c \in UNION {Forests(n, CollidingLabels) : n \in 0..MaxColliding}}

\* os.listdir: the directories in some order
Listings == {l \in [1..NumDirs -> Dirs] : \A i, j \in 1..NumDirs : l[i] = l[j] => i = j}

\* course_dirs = None, or a list of directory names
AllCourseDirs == [none |-> TRUE, dirs |-> {}]
OnlyCourseDirs(ds) == [none |-> FALSE, dirs |-> ds]

(***************************************************************************)
(* The store.                                                              *)
(***************************************************************************)
VARIABLES
    fs,             \* course directory -> its course.xml
    listing,        \* os.listdir(data_dir)
    opts,           \* the arguments of XMLModuleStore(...)
    pc,             \* "start", "loop", "load", "ready", "resolve", "raised"
    idx,            \* position of the loop over listing
    default_class,  \* self.default_class
    modules,        \* self.modules: Location -> descriptor
    courses,        \* self.courses: course_dir -> descriptor
    inserted,       \* the keys of self.courses in the order of their insertion
    descs,          \* the descriptor objects created so far, by identity
    isys,           \* course_dir -> the ImportSystem of its load
    stack,          \* the calls in progress that iterate over child markup
    log,            \* what was logged at error level or above
    ret             \* the outcome of the last call made, or request served

vars == <<fs, listing, opts, pc, idx, default_class, modules, courses,
          inserted, descs, isys, stack, log, ret>>

inputs == <<fs, listing, opts>>

Empty == [k \in {} |-> 0]
Put(f, k, v) == [x \in DOMAIN f \cup {k} |-> IF x = k THEN v ELSE f[x]]
Range(f) == {f[x] : x \in DOMAIN f}

NoRet == [op |-> "none"]

\* the state on entry to the loop of __init__, for given inputs
InitState ==
    /\ pc = "start"
    /\ idx = 1
    /\ default_class = NoClass
    /\ modules = Empty
    /\ courses = Empty
    /\ inserted = <<>>
    /\ descs = <<>>
    /\ isys = Empty
    /\ stack = <<>>
    /\ log = <<>>
    /\ ret = NoRet

\* a data directory of several small courses, every constructor argument
Init ==
    /\ fs \in [Dirs -> StoreFiles]
    /\ listing \in Listings
    /\ opts \in [eager : BOOLEAN,
                 default_class : {NoClass, GoodClass, BadClass},
                 course_dirs : {AllCourseDirs, OnlyCourseDirs({DirNames[1]})}]
    /\ InitState

\* a data directory with one course of any shape and labelling
InitCourse ==
    /\ \E f \in CourseFiles :
          fs = [d \in Dirs |-> IF d = DirNames[1] THEN f ELSE Absent]
    /\ listing = [i \in 1..NumDirs |-> DirNames[i]]
    /\ opts \in [eager : BOOLEAN,
                 default_class : {GoodClass},
                 course_dirs : {AllCourseDirs}]
    /\ InitState

\* (variant: a loop that stops before the last entry of the listing)
LoopPcStopsEarly(i) == IF i >= Len(listing) THEN "ready" ELSE "loop"

\* the loop of __init__ at position i of the listing: over when i is past it
LoopPc(i) == IF i > Len(listing) THEN "ready" ELSE "loop"

\* a data directory with one course of nodes of every kind of implementation,
\* followed by a directory that is empty or holds a one-node course
InitTypes ==
    /\ \E f \in TypeFiles, g \in {Absent, File(Element(CourseTag, NoAttrib, <<P>>))} :
          fs = [d \in Dirs |-> IF d = DirNames[1] THEN f
                               ELSE IF d = DirNames[2] THEN g ELSE Absent]
    /\ listing = [i \in 1..NumDirs |-> DirNames[i]]
    /\ opts \in [eager : BOOLEAN,
                 default_class : {NoClass, GoodClass},
                 course_dirs : {AllCourseDirs}]
    /\ InitState

\* a data directory of several courses, each of any small shape, or missing
InitNamespaces ==
    /\ fs \in [Dirs -> SharedFiles \cup {Absent}]
    /\ listing = [i \in 1..NumDirs |-> DirNames[i]]
    /\ opts \in [eager : BOOLEAN,
                 default_class : {GoodClass},
                 course_dirs : {AllCourseDirs}]
    /\ InitState

\* a data directory of several courses whose nodes collide, or missing
InitCollisions ==
    /\ fs \in [Dirs -> CollidingFiles \cup {Absent}]
    /\ listing = [i \in 1..NumDirs |-> DirNames[i]]
    /\ opts \in [eager : BOOLEAN,
                 default_class : {GoodClass},
                 course_dirs : {AllCourseDirs}]
    /\ InitState

\* (variant: a default class that cannot be loaded is passed over, and the
\* store has none)
ImportClassOrNone(name) ==
    IF name \in LoadableClasses THEN [exc |-> "none", class |-> name]
    ELSE [exc |-> "none", class |-> NoClass]

\* getattr(import_module(module_path), class_name): the class of a dotted
\* name, or the error of the import
ImportClass(name) ==
    IF name \in LoadableClasses THEN [exc |-> "none", class |-> name]
    ELSE [exc |-> "ImportError"]

\* __init__, the import of the default class
ImportDefaultClass ==
    /\ pc = "start"
    /\ LET c == IF opts.default_class = NoClass
                THEN [exc |-> "none", class |-> NoClass]
                ELSE ImportClass(opts.default_class)
       IN  IF c.exc = "none"
           THEN /\ default_class' = c.class
                /\ pc' = LoopPc(1)
                /\ ret' = ret
           ELSE /\ default_class' = default_class
                /\ pc' = "raised"
                /\ ret' = [op |-> "__init__", exc |-> c.exc]
    /\ UNCHANGED <<inputs, idx, modules, courses, inserted, descs, isys,
                   stack, log>>

\* (variant: a loop that does not look at course_dirs)
SkippedWithoutCourseXml(d) == fs[d].kind = "absent"

\* the loop of __init__: a directory that is filtered out or has no course.xml
Skipped(d) ==
    \/ ~opts.course_dirs.none /\ d \notin opts.course_dirs.dirs
    \/ fs[d].kind = "absent"

SkipCourseDir ==
    /\ pc = "loop"
    /\ Skipped(listing[idx])
    /\ idx' = idx + 1
    /\ pc' = LoopPc(idx + 1)
    /\ UNCHANGED <<inputs, default_class, modules, courses, inserted, descs,
                   isys, stack, log, ret>>

Logged(msg, arg) == [msg |-> msg, arg |-> arg]

\* the except clause of the loop of __init__: the failure is logged and the
\* loop goes on with the next directory
FailedToLoad(d) == Logged("Failed to load course", d)

\* (variant: an except clause that lets the failure out of __init__)
ExceptReraises(i) == "raised"

\* where __init__ goes on after the except clause at loop position i
Except(i) == LoopPc(i + 1)

\* (variant: a try clause that records the root of a load that raised)
TryLoadKeepsPartial(cat, d, outcome) ==
    IF outcome.root /= 0 THEN Put(cat, d, outcome.root) ELSE cat

\* the try clause of the loop of __init__ on the catalog: the descriptor that
\* load_course returns is recorded; nothing is when load_course raises.
\* outcome.root is the root descriptor if one was made, else 0
TryLoad(cat, d, outcome) ==
    IF outcome.exc = "none" THEN Put(cat, d, outcome.root) ELSE cat

\* the keys of the catalog in the order of their insertion
Inserted(order, cat, cat2) ==
    order \o (IF DOMAIN cat2 = DOMAIN cat THEN <<>>
              ELSE <<CHOOSE d \in DOMAIN cat2 \ DOMAIN cat : TRUE>>)

\* load_course, the organization: the root's org attribute, else 'edx'
RootOrg(course_data) ==
    IF HasAttr(course_data, "org") THEN course_data.attrib["org"] ELSE DefaultOrg

\* (variant: a root without course attribute is given the default that the
\* organization has)
RootCourseDefaultsAsOrg(course_data, course_dir) ==
    IF HasAttr(course_data, "course") THEN course_data.attrib["course"]
    ELSE DefaultOrg

\* (variant: the directory name whatever the root declares)
RootCourseIgnoresAttribute(course_data, course_dir) == course_dir

\* load_course, the course: the root's course attribute, else the directory
RootCourse(course_data, course_dir) ==
    IF HasAttr(course_data, "course") THEN course_data.attrib["course"]
    ELSE course_dir

\* load_course, opening and parsing course.xml: what it raises, "none" when
\* the root element is obtained
OpenAndParse(d) ==
    IF fs[d].kind /= "file" THEN "IOError"
    ELSE IF ~fs[d].text.wf THEN "XMLSyntaxError"
    ELSE "none"

\* load_course up to the call of process_xml on the root
LoadCourse ==
    /\ pc = "loop"
    /\ ~Skipped(listing[idx])
    /\ LET d == listing[idx]
       IN  IF OpenAndParse(d) /= "none"
           THEN /\ log' = Append(log, FailedToLoad(d))
                /\ idx' = idx + 1
                /\ pc' = Except(idx)
                /\ courses' = TryLoad(courses, d,
                                      [exc |-> OpenAndParse(d), root |-> 0])
                /\ UNCHANGED <<isys, stack>>
           ELSE LET course_data == fs[d].text
                    noorg    == ~HasAttr(course_data, "org")
                    nocourse == ~HasAttr(course_data, "course")
                    org    == RootOrg(course_data)
                    course == RootCourse(course_data, d)
                IN  /\ log' = log
                             \o (IF noorg THEN <<Logged("No 'org' attribute", d)>>
                                 ELSE <<>>)
                             \o (IF nocourse
                                 THEN <<Logged("No 'course' attribute", d)>>
                                 ELSE <<>>)
                    /\ isys' = ImportSystem(isys, d, org, course)
                    /\ stack' = <<[desc |-> 0, dir |-> d, node |-> <<>>,
                                   pending |-> <<course_data>>, made |-> <<>>]>>
                    /\ pc' = "load"
                    /\ idx' = idx
                    /\ courses' = courses
    /\ inserted' = Inserted(inserted, courses, courses')
    /\ UNCHANGED <<inputs, default_class, modules, descs, ret>>

\* the calls that have no child markup left return: the definition of their
\* descriptor is loaded, its children are the locations of the modules made
RECURSIVE Unwind(_, _)
Unwind(stk, ds) ==
    IF stk = <<>> THEN [stack |-> stk, descs |-> ds]
    ELSE LET top == stk[Len(stk)]
         IN  IF top.pending /= <<>> \/ top.desc = 0
             THEN [stack |-> stk, descs |-> ds]
             ELSE Unwind(SubSeq(stk, 1, Len(stk) - 1),
                         [ds EXCEPT ![top.desc].loaded = TRUE,
                                    ![top.desc].children =
                                        [i \in 1..Len(top.made) |->
                                            ds[top.made[i]].location]])

\* (variant: a module that is not in the index while its children are made)
RegisterDeferred(mods, location, id) == mods

\* (variant: a location that has a module keeps it)
RegisterKeepsFirst(mods, location, id) ==
    IF location \in DOMAIN mods THEN mods ELSE Put(mods, location, id)

\* xmlstore.modules[module.location] = module
Register(mods, location, id) == Put(mods, location, id)

\* (variant: an except clause that takes the descriptors of the failed
\* course out of the index)
FailedLoadRolledBack(mods, ds, course_dir) ==
    [l \in {k \in DOMAIN mods : ds[mods[k]].data_dir /= course_dir} |-> mods[l]]

\* the except clause of the loop of __init__ on the index: it logs and does
\* nothing else, the index is as the failed load left it
FailedLoad(mods, ds, course_dir) == mods

\* (variant: a parse error that is passed on without being logged)
ParseErrorUnlogged(exc, d) == <<>>

\* process_xml, the except clause around the parse: the error is logged and
\* raised again; other exceptions pass unlogged
ParseErrorLogged(exc, d) ==
    IF exc = "XMLSyntaxError" THEN <<Logged("Unable to parse xml", d)>>
    ELSE <<>>

\* process_xml is called on the next piece of child markup: by load_course on
\* the root, by an eager descriptor on each of its children, or by a
\* descriptor whose children were requested
\* (variant: the children of every module are resolved as it is made)
GetChildrenAlways(stk, call) == Append(stk, call)

\* if xmlstore.eager: module.get_children() -- the call that goes through
\* the child markup of the module just made is entered, or is left for later
GetChildrenIfEager(stk, call) ==
    IF opts.eager THEN Append(stk, call) ELSE stk

CallProcessXml ==
    /\ pc \in {"load", "resolve"}
    /\ \E r \in {ProcessXml(Head(stack[Len(stack)].pending),
                            isys[stack[Len(stack)].dir], default_class,
                            stack[Len(stack)].dir)} :
       LET top  == stack[Len(stack)]
           d    == top.dir
           id   == Len(descs) + 1
           node == Append(top.node, Len(top.made) + 1)
           desc == [n \in {"node"} |-> node] @@ r.desc
           stk0 == [stack EXCEPT ![Len(stack)].pending = Tail(@),
                                 ![Len(stack)].made = Append(@, id)]
           stk1 == GetChildrenIfEager(stk0,
                                      [desc |-> id, dir |-> d, node |-> node,
                                       pending |-> r.desc.xml.children,
                                       made |-> <<>>])
           mods == Register(modules, r.desc.location, id)
       IN  /\ isys' = [isys EXCEPT ![d] = r.isys]
           /\ IF r.exc /= "none"
              THEN /\ stack' = <<>>
                   /\ log' = log
                             \o ParseErrorLogged(r.exc, d)
                             \o (IF pc = "load" THEN <<FailedToLoad(d)>>
                                 ELSE <<>>)
                   /\ IF pc = "load"
                      THEN /\ idx' = idx + 1
                           /\ pc' = Except(idx)
                           /\ ret' = ret
                           /\ courses' = TryLoad(courses, d,
                                  [exc |-> r.exc,
                                   root |-> IF stack[1].made = <<>> THEN 0
                                            ELSE stack[1].made[1]])
                      ELSE /\ idx' = idx
                           /\ pc' = "ready"
                           /\ ret' = [op |-> "get_children", exc |-> r.exc]
                           /\ courses' = courses
                   /\ modules' = (IF pc = "load"
                                  THEN FailedLoad(modules, descs, d)
                                  ELSE modules)
                   /\ descs' = descs
              ELSE \E u \in {Unwind(stk1, Append(descs, desc))} :
                   /\ modules' = mods
                   /\ descs' = u.descs
                   /\ log' = log
                   /\ IF u.stack = <<>>
                      THEN /\ stack' = <<>>
                           /\ pc' = "ready"
                           /\ idx' = idx
                           /\ ret' = [op |-> "get_children", exc |-> "none",
                                      value |->
                                        [i \in 1..Len(u.descs[stack[1].desc].children) |->
                                            mods[u.descs[stack[1].desc].children[i]]]]
                           /\ courses' = courses
                      ELSE IF Len(u.stack) = 1 /\ u.stack[1].desc = 0
                      THEN /\ stack' = <<>>
                           /\ courses' = TryLoad(courses, d,
                                  [exc |-> "none", root |-> u.stack[1].made[1]])
                           /\ idx' = idx + 1
                           /\ pc' = LoopPc(idx + 1)
                           /\ ret' = ret
                      ELSE /\ stack' = u.stack
                           /\ UNCHANGED <<courses, idx, pc, ret>>
    /\ inserted' = Inserted(inserted, courses, courses')
    /\ UNCHANGED <<inputs, default_class>>

(***************************************************************************)
(* The store once constructed.                                             *)
(***************************************************************************)
\* the descriptors a caller can hold: those the index or the catalog returns
Held == Range(modules) \cup Range(courses)

\* a caller requests the children of a descriptor whose definition is not
\* loaded: its child markup goes through process_xml, in document order
GetChildren ==
    /\ pc = "ready"
    /\ \E id \in Held :
          /\ ~descs[id].loaded
          /\ Len(descs) + Len(descs[id].xml.children) <= MaxDescs
          /\ isys[descs[id].data_dir].unnamed_modules < MaxCount
          /\ LET frame == [desc |-> id, dir |-> descs[id].data_dir,
                           node |-> descs[id].node,
                           pending |-> descs[id].xml.children, made |-> <<>>]
                 u     == Unwind(<<frame>>, descs)
             IN  IF u.stack = <<>>
                 THEN /\ descs' = u.descs
                      /\ ret' = [op |-> "get_children", exc |-> "none",
                                 value |-> <<>>]
                      /\ UNCHANGED <<stack, pc>>
                 ELSE /\ stack' = <<frame>>
                      /\ pc' = "resolve"
                      /\ ret' = NoRet
                      /\ UNCHANGED descs
    /\ UNCHANGED <<inputs, idx, default_class, modules, courses, inserted,
                   isys, log>>

\* a caller calls load_course itself on a directory whose course.xml cannot
\* be opened or parsed: the exception is the caller's
CallLoadCourse ==
    /\ pc = "ready"
    /\ \E course_dir \in Dirs :
          /\ OpenAndParse(course_dir) /= "none"
          /\ ret' = [op |-> "load_course", arg |-> course_dir,
                     exc |-> OpenAndParse(course_dir)]
    /\ UNCHANGED <<inputs, pc, idx, default_class, modules, courses, inserted,
                   descs, isys, stack, log>>

\* (variant: a lookup that answers for the location without its revision)
get_item_any_revision(location) ==
    LET latest == [location EXCEPT !.revision = NoRevision]
    IN  IF latest \in DOMAIN modules
        THEN [op |-> "get_item", arg |-> location, exc |-> "none",
              value |-> modules[latest]]
        ELSE [op |-> "get_item", arg |-> location, exc |-> "ItemNotFoundError"]

\* get_item: self.modules[location], ItemNotFoundError on a KeyError
get_item(location) ==
    IF location \in DOMAIN modules
    THEN [op |-> "get_item", arg |-> location, exc |-> "none",
          value |-> modules[location]]
    ELSE [op |-> "get_item", arg |-> location, exc |-> "ItemNotFoundError"]

\* locations a caller may ask for besides the registered ones
Probes ==
    {Location(DefaultOrg, DirNames[1], PTag, PTag \o Underscore \o Str(9)),
     [Location(DefaultOrg, DirNames[1], CourseTag, Suffixed(CourseTag, 1))
         EXCEPT !.revision = <<"1">>]}

GetItem ==
    /\ pc = "ready"
    /\ \E location \in DOMAIN modules \cup Probes : ret' = get_item(location)
    /\ UNCHANGED <<inputs, pc, idx, default_class, modules, courses, inserted,
                   descs, isys, stack, log>>

\* (variant: lists that repeat one value)
ValueListsRepeating(f) ==
    {[i \in 1..Cardinality(DOMAIN f) |-> f[k]] : k \in DOMAIN f}

\* the orders in which a dict can list the values of self.courses
ValueLists(f) ==
    {[i \in 1..Len(ks) |-> f[ks[i]]] :
        ks \in {s \in [1..Cardinality(DOMAIN f) -> DOMAIN f] :
                   \A i, j \in DOMAIN s : s[i] = s[j] => i = j}}

\* get_courses: self.courses.values()
get_courses == {[op |-> "get_courses", exc |-> "none", value |-> v] :
                   v \in ValueLists(courses)}

GetCourses ==
    /\ pc = "ready"
    /\ ret' \in get_courses
    /\ UNCHANGED <<inputs, pc, idx, default_class, modules, courses, inserted,
                   descs, isys, stack, log>>

\* (variant: a mutation entry point that returns)
ReadOnlyReturns(op) == [op |-> op, exc |-> "none"]

\* create_item, update_item, update_children, update_metadata: each raises
\* NotImplementedError("XMLModuleStores are read-only")
ReadOnly(op) == [op |-> op, exc |-> "NotImplementedError"]

CreateItem ==
    /\ pc = "ready"
    /\ \E location \in DOMAIN modules \cup Probes :
          /\ ret' = ReadOnly("create_item")
          /\ UNCHANGED <<modules, descs>>
    /\ UNCHANGED <<inputs, pc, idx, default_class, courses, inserted, isys,
                   stack, log>>

UpdateItem ==
    /\ pc = "ready"
    /\ \E location \in DOMAIN modules \cup Probes, data \in {P} :
          /\ ret' = ReadOnly("update_item")
          /\ UNCHANGED <<modules, descs>>
    /\ UNCHANGED <<inputs, pc, idx, default_class, courses, inserted, isys,
                   stack, log>>

UpdateChildren ==
    /\ pc = "ready"
    /\ \E location \in DOMAIN modules \cup Probes,
          children \in {<<>>} :
          /\ ret' = ReadOnly("update_children")
          /\ UNCHANGED <<modules, descs>>
    /\ UNCHANGED <<inputs, pc, idx, default_class, courses, inserted, isys,
                   stack, log>>

UpdateMetadata ==
    /\ pc = "ready"
    /\ \E location \in DOMAIN modules \cup Probes, metadata \in {NoAttrib} :
          /\ ret' = ReadOnly("update_metadata")
          /\ UNCHANGED <<modules, descs>>
    /\ UNCHANGED <<inputs, pc, idx, default_class, courses, inserted, isys,
                   stack, log>>

Next ==
    \/ ImportDefaultClass
    \/ SkipCourseDir
    \/ LoadCourse
    \/ CallProcessXml
    \/ GetChildren
    \/ CallLoadCourse
    \/ GetItem
    \/ GetCourses
    \/ CreateItem
    \/ UpdateItem
    \/ UpdateChildren
    \/ UpdateMetadata

Spec == Init /\ [][Next]_vars

SpecCourse == InitCourse /\ [][Next]_vars

SpecTypes == InitTypes /\ [][Next]_vars

SpecNamespaces == InitNamespaces /\ [][Next]_vars

SpecCollisions == InitCollisions /\ [][Next]_vars

(***************************************************************************)
(* Properties.                                                             *)
(***************************************************************************)
\* the directories whose load the loop of __init__ logged as failed
FailedDirs ==
    {log[i].arg : i \in {j \in 1..Len(log) : log[j].msg = "Failed to load course"}}

\* markup of which every node parses and has an implementation
RECURSIVE Sound(_)
Sound(text) ==
    /\ text.wf
    /\ ResolveClass(text, default_class).exc = "none"
    /\ \A i \in 1..Len(text.children) : Sound(text.children[i])

\* a course.xml that can be read and parsed, of which every node that the
\* load touches (all of them if eager, the root if lazy) can be processed
Loadable(d) ==
    /\ fs[d].kind = "file"
    /\ fs[d].text.wf
    /\ IF opts.eager THEN Sound(fs[d].text)
       ELSE ResolveClass(fs[d].text, default_class).exc = "none"

MutationOps == {"create_item", "update_item", "update_children", "update_metadata"}

\* the slug of a descriptor
Slug(id) == descs[id].xml.attrib["slug"]

\* C1: once the directories are enumerated the constructor raises nothing,
\* and when it is done the catalog holds exactly the eligible directories
\* whose course.xml could be loaded, the failed ones being exactly the
\* others, wherever they come in the listing
C1_PartialFailureIsolation ==
    /\ pc = "raised" => idx = 1 /\ log = <<>>
    /\ pc = "ready" =>
          /\ DOMAIN courses = {d \in Dirs : ~Skipped(d) /\ Loadable(d)}
          /\ FailedDirs = {d \in Dirs : ~Skipped(d) /\ ~Loadable(d)}

C1_Witness ==
    /\ pc = "ready"
    /\ \E i, j \in 1..Len(listing) :
          i < j /\ listing[i] \in FailedDirs /\ listing[j] \in DOMAIN courses

\* C2: within one course load no two nodes have the same slug
C2_SlugUniqueness ==
    \A i, j \in 1..Len(descs) :
        (descs[i].data_dir = descs[j].data_dir /\ descs[i].node /= descs[j].node)
            => Slug(i) /= Slug(j)

\* C3: get_item on the location of any descriptor that process_xml registered
\* returns that very descriptor
C3_RoundTrip ==
    \A id \in 1..Len(descs) :
        LET r == get_item(descs[id].location)
        IN  r.exc = "none" /\ r.value = id

\* the slug that each node of a document gets when the nodes are processed in
\* document order: node position -> slug
RECURSIVE DocumentOrder(_, _, _, _)
DocumentOrder(texts, prefix, i, acc) ==
    IF i > Len(texts) THEN acc
    ELSE LET a    == AssignSlug(acc.isys, texts[i])
             node == Append(prefix, i)
             here == [isys |-> a.isys,
                      slug |-> Put(acc.slug, node, a.xml.attrib["slug"])]
         IN  DocumentOrder(texts, prefix, i + 1,
                           DocumentOrder(texts[i].children, node, 1, here))

DocumentOrderSlugs(text) ==
    DocumentOrder(<<text>>, <<>>, 1,
                  [isys |-> NewImportSystem(<<>>, <<>>), slug |-> Empty]).slug

\* C4: every store gives every node the same Location: the one it gets when
\* the document is processed in document order, as an eager store does
C4_Determinism ==
    \A id \in 1..Len(descs) :
        Slug(id) = DocumentOrderSlugs(fs[descs[id].data_dir].text)[descs[id].node]

\* C5: when load_course returns for a course, the root and every descendant
\* that has a descriptor is in the index, at its location
C5_IndexCompleteness ==
    [][\A d \in DOMAIN courses' \ DOMAIN courses :
          \A id \in 1..Len(descs') :
              descs'[id].data_dir = d =>
                  /\ descs'[id].location \in DOMAIN modules'
                  /\ modules'[descs'[id].location] = id]_vars

\* C6: get_item on a location at which nothing was registered fails with
\* ItemNotFoundError, and what get_item returns was registered at the
\* location asked for
MissingLookup(r) ==
    IF \E id \in 1..Len(descs) : descs[id].location = r.arg
    THEN r.exc = "none" /\ descs[r.value].location = r.arg
    ELSE r.exc = "ItemNotFoundError"

C7_ReadOnly ==
    ret.op \in MutationOps => ret.exc = "NotImplementedError"

C7_Witness ==
    /\ ret.op = "update_children"
    /\ ret.exc = "NotImplementedError"
    /\ modules /= Empty

\* C8: the organization of a course is the org attribute of its root, 'edx'
\* without one; its course identifier is the course attribute, the directory
\* name without one; a root without them does not make the load fail
C8_DefaultFallback ==
    \A d \in Dirs :
        LET root == fs[d].text
            org == IF "org" \in DOMAIN root.attrib THEN root.attrib["org"]
                   ELSE <<"e", "d", "x">>
            course == IF "course" \in DOMAIN root.attrib
                      THEN root.attrib["course"] ELSE d
        IN  /\ d \in DOMAIN isys => isys[d].org = org /\ isys[d].course = course
            /\ \A id \in 1..Len(descs) :
                  descs[id].data_dir = d =>
                      /\ descs[id].location.org = org
                      /\ descs[id].location.course = course
            /\ (pc = "ready" /\ ~Skipped(d) /\ Loadable(d)) => d \in DOMAIN courses

C8_Witness ==
    \E d, e \in DOMAIN courses :
        /\ fs[d].text.attrib = NoAttrib
        /\ descs[courses[d]].location.org = <<"e", "d", "x">>
        /\ descs[courses[d]].location.course = d
        /\ DOMAIN fs[e].text.attrib = {"org", "course"}
        /\ descs[courses[e]].location.course = <<"x">>

\* C9: a directory is in the catalog only if its load returned; a directory
\* whose load failed is neither in the catalog nor among get_courses
C9_CatalogOnlyLoaded ==
    /\ \A d \in DOMAIN courses :
          /\ d \notin FailedDirs
          /\ Loadable(d)
          /\ descs[courses[d]].data_dir = d
          /\ descs[courses[d]].node = <<1>>
    /\ ret.op = "get_courses" =>
          \A i \in 1..Len(ret.value) : descs[ret.value[i]].data_dir \notin FailedDirs

C9_Witness ==
    /\ ret.op = "get_courses"
    /\ Len(ret.value) > 0
    /\ \E location \in DOMAIN modules :
          descs[modules[location]].data_dir \in FailedDirs

\* C10 as stated: get_courses lists the roots in the order of insertion
C10_InsertionOrder ==
    ret.op = "get_courses" =>
        ret.value = [i \in 1..Len(inserted) |-> courses[inserted[i]]]

\* C10: get_courses lists the root descriptor of every course of the catalog,
\* each exactly once
C10_EachRootOnce ==
    ret.op = "get_courses" =>
        /\ Len(ret.value) = Len(inserted)
        /\ {ret.value[i] : i \in 1..Len(ret.value)} =
               {courses[inserted[i]] : i \in 1..Len(inserted)}
        /\ \A i, j \in 1..Len(ret.value) : ret.value[i] = ret.value[j] => i = j

C10_Witness ==
    /\ ret.op = "get_courses"
    /\ Len(ret.value) = 2
    /\ ret.value[1] = courses[inserted[2]]

\* the directories that load_course was called on so far: each call either
\* got as far as making the ImportSystem or was logged as failed
Attempted == DOMAIN isys \cup FailedDirs

\* C11: load_course is called on a listed directory exactly when course_dirs
\* is None or names it and it holds a course.xml; a directory that is passed
\* over leaves no descriptor, no catalog entry and no log entry
C11_InitFiltering ==
    \A i \in 1..Len(listing) :
        LET d == listing[i]
            eligible == /\ opts.course_dirs.none \/ d \in opts.course_dirs.dirs
                        /\ fs[d].kind /= "absent"
            reached == i < idx \/ (i = idx /\ pc = "load")
        IN  /\ d \in Attempted <=> (reached /\ eligible)
            /\ ~eligible =>
                  /\ d \notin DOMAIN courses
                  /\ \A id \in 1..Len(descs) : descs[id].data_dir /= d
                  /\ \A l \in DOMAIN modules : descs[modules[l]].data_dir /= d
                  /\ \A j \in 1..Len(log) : log[j].arg /= d

C11_Witness ==
    /\ pc = "ready"
    /\ \E d, e \in Dirs :
          /\ ~opts.course_dirs.none /\ d \notin opts.course_dirs.dirs
          /\ fs[d].kind = "file" /\ fs[d].text.wf
          /\ d \notin Attempted
          /\ fs[e].kind = "absent"
          /\ e \notin Attempted
    /\ opts.default_class = GoodClass


\* the markup at a position of a document
RECURSIVE NodeAt(_, _)
NodeAt(texts, node) ==
    IF Len(node) = 1 THEN texts[node[1]]
    ELSE NodeAt(texts[node[1]].children, Tail(node))

\* C12: a descriptor that process_xml makes is registered, as it is made, at
\* the location of the course's organization and course identifier, the tag
\* of its node as category and the slug written onto its node as name, with
\* no revision; get_item on that location then returns it
C12_LocationConstruction ==
    [][\A id \in (Len(descs) + 1)..Len(descs') :
          LET desc == descs'[id]
              d == desc.data_dir
              source == NodeAt(<<fs[d].text>>, desc.node)
              location == [org      |-> isys'[d].org,
                           course   |-> isys'[d].course,
                           category |-> source.tag,
                           name     |-> desc.xml.attrib["slug"],
                           revision |-> <<>>]
          IN  /\ desc.location = location
              /\ location \in DOMAIN modules'
              /\ modules'[location] = id]_vars

\* <course><p name="a"/></course> in c1: the child is at (edx, c1, p, a, None)
C12_Witness ==
    \E id \in 1..Len(descs) :
        LET location == [org |-> <<"e", "d", "x">>, course |-> <<"c", "1">>,
                         category |-> <<"p">>, name |-> <<"a">>,
                         revision |-> <<>>]
        IN  /\ descs[id].location = location
            /\ "name" \in DOMAIN descs[id].xml.attrib
            /\ "slug" \notin DOMAIN NodeAt(<<fs[descs[id].data_dir].text>>,
                                           descs[id].node).attrib
            /\ ret = get_item(location)
            /\ ret.value = id


\* C13: a node that carries a slug attribute keeps it as its slug, also when
\* the slug is already used in the course, and the unnamed counter of the
\* course is what it was before the node was processed
C13_ExplicitSlugVerbatim ==
    [][\A id \in (Len(descs) + 1)..Len(descs') :
          LET d == descs'[id].data_dir
              source == NodeAt(<<fs[d].text>>, descs'[id].node)
          IN  "slug" \in DOMAIN source.attrib =>
                  /\ descs'[id].xml.attrib["slug"] = source.attrib["slug"]
                  /\ descs'[id].location.name = source.attrib["slug"]
                  /\ isys'[d].unnamed_modules = isys[d].unnamed_modules]_vars

\* a node with an explicit slug that a node processed before it already has
C13_Witness ==
    \E i, j \in 1..Len(descs) :
        /\ i < j
        /\ descs[i].data_dir = descs[j].data_dir
        /\ "slug" \in DOMAIN NodeAt(<<fs[descs[j].data_dir].text>>,
                                    descs[j].node).attrib
        /\ "slug" \notin DOMAIN NodeAt(<<fs[descs[i].data_dir].text>>,
                                       descs[i].node).attrib
        /\ descs[i].xml.attrib["slug"] = descs[j].xml.attrib["slug"]
        /\ isys[descs[j].data_dir].unnamed_modules = 1


\* C14: the slug that a node ends up with, whether it was explicit, derived
\* from the name or synthesized, is in the used-slug set of its course
C14_FinalSlugRecorded ==
    \A id \in 1..Len(descs) :
        Slug(id) \in isys[descs[id].data_dir].used_slugs


\* C15: when the candidate slug of a node is already used (the counter is
\* then incremented once more than for the candidate alone), the slug made
\* of the candidate and the incremented counter is not among the slugs that
\* were used before the node was processed
C15_SingleBumpSuffices ==
    [][\A id \in (Len(descs) + 1)..Len(descs') :
          LET d == descs'[id].data_dir
              source == NodeAt(<<fs[d].text>>, descs'[id].node)
              named == "name" \in DOMAIN source.attrib
                       /\ source.attrib["name"] /= <<>>
              bumps == isys'[d].unnamed_modules - isys[d].unnamed_modules
          IN  ("slug" \notin DOMAIN source.attrib
               /\ bumps = (IF named THEN 1 ELSE 2))
                  => descs'[id].xml.attrib["slug"] \notin isys[d].used_slugs]_vars


\* C16: once __init__ has returned, nothing that a caller does with the
\* store or with its descriptors changes the index or the catalog
C16_PostInitImmutable ==
    [][(pc = "ready" \/ pc = "resolve") =>
          (modules' = modules /\ courses' = courses)]_vars


\* document order of node positions: a parent before its children, siblings
\* left to right
DocBefore(a, b) ==
    \/ Len(a) < Len(b) /\ SubSeq(b, 1, Len(a)) = a
    \/ \E k \in 1..Len(a) :
          /\ k <= Len(b)
          /\ SubSeq(a, 1, k - 1) = SubSeq(b, 1, k - 1)
          /\ a[k] < b[k]

\* the slug that a node would get as the first of its course: its candidate
Candidate(source) ==
    AssignSlug(NewImportSystem(<<>>, <<>>), source).xml.attrib["slug"]

\* C17: the nodes of a course get their slugs and are registered in document
\* order, so of two named nodes with the same candidate slug the later one
\* in the document is not the one that has the bare candidate
C17_SourceOrder ==
    \A i, j \in 1..Len(descs) :
        (descs[i].data_dir = descs[j].data_dir
         /\ DocBefore(descs[i].node, descs[j].node)) =>
            /\ i < j
            /\ LET text == fs[descs[i].data_dir].text
                   si == NodeAt(<<text>>, descs[i].node)
                   sj == NodeAt(<<text>>, descs[j].node)
               IN  (/\ DOMAIN si.attrib = {"name"}
                    /\ DOMAIN sj.attrib = {"name"}
                    /\ si.attrib["name"] /= <<>>
                    /\ Candidate(si) = Candidate(sj))
                       => Slug(j) /= Candidate(sj)


\* C18: while the child markup of a descriptor is being processed, get_item
\* on the location of the descriptor succeeds, and so does get_item on the
\* location of each child already made
C18_RegisterBeforeChildren ==
    \A k \in 1..Len(stack) :
        /\ stack[k].desc /= 0 =>
              get_item(descs[stack[k].desc].location).exc = "none"
        /\ \A m \in 1..Len(stack[k].made) :
              get_item(descs[stack[k].made[m]].location).exc = "none"

\* an eager load about to process a later child of a node below the root
C18_Witness ==
    /\ opts.eager
    /\ pc = "load"
    /\ Len(stack) >= 3
    /\ stack[Len(stack)].made /= <<>>
    /\ stack[Len(stack)].pending /= <<>>
    /\ descs[stack[Len(stack)].desc].location \in DOMAIN modules


\* C19: a failure of a course load is absorbed once, by the loop of __init__
\* and nowhere else.  A step logs "Failed to load course" at most once, and
\* only as the loop gives up the directory it is at; a load that the loop
\* started ends with the course in the catalog or with that log entry;
\* process_xml on malformed markup logs it, registers nothing and lets the
\* error out, to the loop or to the caller that asked for the children;
\* load_course called directly logs nothing and raises what opening and
\* parsing course.xml raised
C19_CaughtOnceAtLoop ==
    [][LET new == SubSeq(log', Len(log) + 1, Len(log'))
           failed == {i \in 1..Len(new) : new[i].msg = "Failed to load course"}
       IN  /\ Cardinality(failed) <= 1
           /\ failed /= {} =>
                 /\ pc = "loop" \/ pc = "load"
                 /\ new[Len(new)] = [msg |-> "Failed to load course",
                                     arg |-> listing[idx]]
                 /\ idx' = idx + 1
                 /\ pc' = "loop" \/ pc' = "ready"
                 /\ courses' = courses
           /\ (pc = "load" /\ pc' /= "load") =>
                 (listing[idx] \in DOMAIN courses' <=> failed = {})
           /\ ((pc = "load" \/ pc = "resolve")
               /\ ~Head(stack[Len(stack)].pending).wf) =>
                 LET d == stack[Len(stack)].dir
                     unable == [msg |-> "Unable to parse xml", arg |-> d]
                 IN  /\ modules' = modules
                     /\ pc = "load" =>
                           new = <<unable, [msg |-> "Failed to load course",
                                            arg |-> d]>>
                     /\ pc = "resolve" =>
                           /\ new = <<unable>>
                           /\ ret' = [op |-> "get_children",
                                      exc |-> "XMLSyntaxError"]
           /\ (pc = "ready" /\ ret'.op = "load_course") =>
                 /\ new = <<>>
                 /\ ret'.exc = (IF fs[ret'.arg].kind /= "file" THEN "IOError"
                                ELSE "XMLSyntaxError")
                 /\ UNCHANGED <<modules, courses, pc>>]_vars

\* a child that does not parse made a load fail, logged by process_xml and
\* then by the loop; load_course called on a directory whose root does not
\* parse raised to its caller
C19_Witness ==
    /\ pc = "ready"
    /\ \E j \in 1..(Len(log) - 1) :
          /\ log[j].msg = "Unable to parse xml"
          /\ log[j + 1] = FailedToLoad(log[j].arg)
    /\ ret.op = "load_course"
    /\ ret.exc = "XMLSyntaxError"
    /\ ret.arg \in FailedDirs


\* the steps of __init__: it runs to its end without waiting for a caller
Initialize ==
    \/ ImportDefaultClass
    \/ SkipCourseDir
    \/ LoadCourse
    \/ pc = "load" /\ CallProcessXml

\* the construction of the store by itself: the constructor, once called,
\* goes on as long as it has a step to take
SpecInit == Init /\ [][Initialize]_vars /\ WF_vars(Initialize)

\* one course at a time, and so far each listed directory that was to be
\* loaded has ended up in the catalog or in the log as failed, never both
OneLoadAtATime ==
    /\ pc = "load" =>
          /\ stack /= <<>>
          /\ \A k \in 1..Len(stack) : stack[k].dir = listing[idx]
    /\ (pc = "start" \/ pc = "loop") => stack = <<>>
    /\ pc = "ready" => idx = Len(listing) + 1
    /\ \A i \in 1..Len(listing) :
          LET d == listing[i]
              eligible == /\ opts.course_dirs.none \/ d \in opts.course_dirs.dirs
                          /\ fs[d].kind /= "absent"
          IN  /\ (i < idx /\ eligible) =>
                    (d \in DOMAIN courses <=> d \notin FailedDirs)
              /\ (i >= idx \/ ~eligible) =>
                    (d \notin DOMAIN courses /\ d \notin FailedDirs)
              /\ Cardinality({j \in 1..Len(log) : log[j] = FailedToLoad(d)}) <= 1

\* the loop goes through the listing once, from its start to its end, and
\* calls load_course on the directory it is at and on no other
EachDirectoryOnce ==
    /\ idx' = idx \/ idx' = idx + 1
    /\ (pc = "loop" /\ pc' = "load") =>
          /\ idx' = idx
          /\ listing[idx] \notin Attempted
          /\ listing[idx] \in DOMAIN isys'
    /\ (pc = "load" /\ pc' /= "load") => idx' = idx + 1
    /\ (DOMAIN isys' /= DOMAIN isys \/ FailedDirs' /= FailedDirs) =>
          /\ pc = "loop" \/ pc = "load"
          /\ Attempted' = Attempted \cup {listing[idx]}

\* C20: the store loads one course at a time, calls load_course exactly once
\* on each listed directory that is to be loaded, each call ending with the
\* course in the catalog or with its failure logged, and once the loop is
\* entered the store gets to the state in which it answers its callers
C20_Lifecycle ==
    /\ []OneLoadAtATime
    /\ [][EachDirectoryOnce]_vars
    /\ (pc = "loop") ~> (pc = "ready")

\* both directories were loaded in turn, the first with several nodes, the
\* second one failing
C20_Witness ==
    /\ pc = "ready"
    /\ idx = 3
    /\ listing[1] \in DOMAIN courses
    /\ listing[2] \in FailedDirs
    /\ \E id \in 1..Len(descs) : Len(descs[id].node) > 1
    /\ ret = NoRet


\* C21: the implementation of a node is its class attribute when it has one,
\* else the registry entry of its tag, else the default class of the store,
\* else there is none; a node without implementation gets no descriptor and
\* no index entry, the load of its course (if one is under way) is given up
\* and logged, and the catalog and the loop are otherwise as they would be
C21_TypeResolutionOrder ==
    [][((pc = "load" \/ pc = "resolve") /\ Head(stack[Len(stack)].pending).wf) =>
          LET text == Head(stack[Len(stack)].pending)
              d == stack[Len(stack)].dir
              none == <<"none">>
              class == IF "class" \in DOMAIN text.attrib
                       THEN IF text.attrib["class"] = <<"o", "k">>
                            THEN text.attrib["class"] ELSE none
                       ELSE IF text.tag \in {<<"c", "o", "u", "r", "s", "e">>, <<"p">>}
                       THEN text.tag
                       ELSE IF opts.default_class /= <<>>
                       THEN opts.default_class
                       ELSE none
          IN  IF class = none
              THEN /\ descs' = descs
                   /\ modules' = modules
                   /\ courses' = courses
                   /\ pc = "load" =>
                         /\ d \in FailedDirs'
                         /\ idx' = idx + 1
                         /\ pc' = "loop" \/ pc' = "ready"
                   /\ pc = "resolve" =>
                         /\ ret'.op = "get_children"
                         /\ ret'.exc \in {"PluginLoadError", "UnresolvedTypeError"}
                         /\ log' = log
              ELSE /\ Len(descs') = Len(descs) + 1
                   /\ descs'[Len(descs')].class = class
                   /\ descs'[Len(descs')].xml.tag = text.tag
                   /\ modules'[descs'[Len(descs')].location] = Len(descs')]_vars

\* an eager load made a descriptor of the default class for a tag that has
\* no registry entry, then met a class that cannot be loaded and was given
\* up; the next directory was loaded
C21_Witness ==
    /\ pc = "ready"
    /\ opts.eager
    /\ listing[1] \in FailedDirs
    /\ listing[2] \in DOMAIN courses
    /\ \E id \in 1..Len(descs) :
          /\ descs[id].data_dir = listing[1]
          /\ descs[id].xml.tag = QTag
          /\ descs[id].class = opts.default_class
    /\ \E i \in 1..Len(fs[listing[1]].text.children) :
          /\ "class" \in DOMAIN fs[listing[1]].text.children[i].attrib
          /\ fs[listing[1]].text.children[i].tag = PTag
          /\ \A id \in 1..Len(descs) :
                descs[id].data_dir = listing[1] => descs[id].node /= <<1, i>>


\* C27: the unnamed counter of a course is 0 when its load starts and never
\* decreases; processing a node adds exactly 1 when the node has neither a
\* slug nor a non-empty name, and exactly 1 when its candidate slug is
\* already used, and nothing else changes it; a node without slug and name
\* has the candidate '<tag>_<counter after the increment>'.
C27_UnnamedCounter ==
    [][/\ \A d \in DOMAIN isys' \ DOMAIN isys : isys'[d].unnamed_modules = 0
       /\ \A d \in DOMAIN isys \cap DOMAIN isys' :
             LET before == isys[d].unnamed_modules
                 after == isys'[d].unnamed_modules
                 processing == /\ pc \in {"load", "resolve"}
                               /\ stack /= <<>>
                               /\ stack[Len(stack)].dir = d
                 source == Head(stack[Len(stack)].pending)
                 named == "name" \in DOMAIN source.attrib
                          /\ source.attrib["name"] /= <<>>
                 unnamed == "slug" \notin DOMAIN source.attrib /\ ~named
                 candidate == IF unnamed THEN Suffixed(source.tag, before + 1)
                              ELSE LocationClean(source.attrib["name"])
                 collision == /\ "slug" \notin DOMAIN source.attrib
                              /\ candidate \in isys[d].used_slugs
             IN  /\ after >= before
                 /\ IF processing /\ source.wf
                    THEN /\ after = before + (IF unnamed THEN 1 ELSE 0)
                                           + (IF collision THEN 1 ELSE 0)
                         /\ unnamed =>
                                \A id \in (Len(descs) + 1)..Len(descs') :
                                    descs'[id].xml.attrib["slug"] =
                                        IF collision
                                        THEN Suffixed(candidate, after)
                                        ELSE candidate
                    ELSE after = before]_vars

\* the first unnamed node of a course, a p, has the slug p_1; a later node
\* collided and a later unnamed node did not
C27_Witness ==
    \E i, j \in 1..Len(descs) :
        /\ descs[i].xml.attrib["slug"] = <<"p", "_", "1">>
        /\ DOMAIN NodeAt(<<fs[descs[i].data_dir].text>>, descs[i].node).attrib
               = {}
        /\ descs[j].data_dir = descs[i].data_dir
        /\ descs[j].xml.attrib["slug"] = <<"a", "_", "2">>
        /\ isys[descs[i].data_dir].unnamed_modules = 2


\* a node processed in this step, without a slug attribute, whose name
\* (not empty, if so required) normalizes to a slug its course has not used:
\* it has the normalized name as slug and the counter is what it was
NameDerived(nonempty) ==
    \A id \in (Len(descs) + 1)..Len(descs') :
        LET d == descs'[id].data_dir
            source == NodeAt(<<fs[d].text>>, descs'[id].node)
        IN  (/\ "slug" \notin DOMAIN source.attrib
             /\ "name" \in DOMAIN source.attrib
             /\ nonempty => source.attrib["name"] /= <<>>
             /\ LocationClean(source.attrib["name"]) \notin isys[d].used_slugs)
            => /\ descs'[id].xml.attrib["slug"] =
                      LocationClean(source.attrib["name"])
               /\ isys'[d].unnamed_modules = isys[d].unnamed_modules

\* C28 as stated: a node without a slug attribute whose name attribute is
\* present gets the normalized name as slug whenever that is not yet used in
\* its course, and the unnamed counter is then left unchanged.
C28_NameDerivedSlug == [][NameDerived(FALSE)]_vars

\* C28, amended: a node without a slug attribute whose name attribute is
\* present and not empty gets the normalized name as slug whenever that is
\* not yet used in its course, and the unnamed counter is then left unchanged.
C28_NonEmptyNameDerivedSlug == [][NameDerived(TRUE)]_vars

\* <p name="a 1"/> has the slug a_1 and the counter is still 0
C28_Witness ==
    \E id \in 1..Len(descs) :
        LET source == NodeAt(<<fs[descs[id].data_dir].text>>, descs[id].node)
        IN  /\ source.attrib = Attr("name", NameA1)
            /\ descs[id].xml.attrib["slug"] = <<"a", "_", "1">>
            /\ isys[descs[id].data_dir].unnamed_modules = 0


\* the positions of the nodes of a document, <<1>> for its root
RECURSIVE Positions(_, _)
Positions(texts, prefix) ==
    UNION {{Append(prefix, i)}
           \cup Positions(texts[i].children, Append(prefix, i)) :
           i \in 1..Len(texts)}

\* the positions of the nodes of a course that have a descriptor
Made(ds, d) == {ds[i].node : i \in {j \in 1..Len(ds) : ds[j].data_dir = d}}

\* C29: in a lazy store load_course makes, slugs and registers the course
\* root only, and a node below it gets its descriptor only in a call for the
\* children of its parent's descriptor; in an eager store every node of the
\* course has its descriptor, loaded and registered, when load_course returns.
C29_LazyDeferral ==
    [][/\ ~opts.eager =>
             \A id \in (Len(descs) + 1)..Len(descs') :
                 LET node == descs'[id].node
                 IN  IF pc = "load"
                     THEN /\ node = <<1>>
                          /\ pc' /= "load"
                          /\ isys'[descs'[id].data_dir].used_slugs =
                                 {descs'[id].xml.attrib["slug"]}
                          /\ DOMAIN modules' =
                                 DOMAIN modules \cup {descs'[id].location}
                     ELSE /\ pc = "resolve"
                          /\ descs[stack[1].desc].data_dir = descs'[id].data_dir
                          /\ descs[stack[1].desc].node =
                                 SubSeq(node, 1, Len(node) - 1)
       /\ (pc = "load" /\ pc' /= "load" /\ listing[idx] \in DOMAIN courses') =>
             LET d == listing[idx]
             IN  IF opts.eager
                 THEN /\ Made(descs', d) = Positions(<<fs[d].text>>, <<>>)
                      /\ \A i \in 1..Len(descs') :
                             descs'[i].data_dir = d =>
                                 /\ descs'[i].loaded
                                 /\ descs'[i].location \in DOMAIN modules'
                 ELSE Made(descs', d) = {<<1>>}]_vars

\* a lazy store whose course has a node below a child of the root: the
\* children of the root were asked for and made, the node below them not
C29_Witness ==
    /\ ~opts.eager
    /\ pc = "ready"
    /\ ret.op = "get_children"
    /\ \E d \in DOMAIN courses :
          /\ <<1, 1>> \in Made(descs, d)
          /\ <<1, 1, 1>> \in Positions(<<fs[d].text>>, <<>>) \ Made(descs, d)


\* the import system and the slugs that the nodes of one course get when
\* they are processed, in the order in which this store made them, by an
\* import system that starts with no slug used and the counter at 0
RECURSIVE Alone(_, _, _)
Alone(d, id, acc) ==
    IF id > Len(descs) THEN acc
    ELSE IF descs[id].data_dir /= d THEN Alone(d, id + 1, acc)
    ELSE LET a == AssignSlug(acc.isys,
                             NodeAt(<<fs[d].text>>, descs[id].node))
         IN  Alone(d, id + 1,
                   [isys |-> a.isys,
                    slug |-> Put(acc.slug, id, a.xml.attrib["slug"])])

\* C30: every load_course starts with no slug used and the unnamed counter
\* at 0, and the slugs, the used-slug set and the counter of a course are
\* those that its own nodes give when processed on their own: they depend
\* neither on the courses loaded before it nor on what those contain.
C30_PerCourseNamespace ==
    \A d \in DOMAIN isys :
        LET own == {id \in 1..Len(descs) : descs[id].data_dir = d}
            alone == Alone(d, 1, [isys |-> NewImportSystem(isys[d].org,
                                                           isys[d].course),
                                  slug |-> Empty])
        IN  /\ own = {} => /\ isys[d].used_slugs = {}
                           /\ isys[d].unnamed_modules = 0
            /\ isys[d] = alone.isys
            /\ \A id \in own : Slug(id) = alone.slug[id]

\* two courses each have a node named a, and both nodes have the slug a;
\* the unnamed root of the second course is course_1 as that of the first
C30_Witness ==
    \E i, j \in 1..Len(descs) :
        /\ descs[i].data_dir = DirNames[1]
        /\ descs[j].data_dir = DirNames[2]
        /\ NodeAt(<<fs[DirNames[1]].text>>, descs[i].node).attrib
               = Attr("name", NameA)
        /\ NodeAt(<<fs[DirNames[2]].text>>, descs[j].node).attrib
               = Attr("name", NameA)
        /\ Slug(i) = NameA
        /\ Slug(j) = NameA
        /\ \E k \in 1..Len(descs) :
               /\ descs[k].data_dir = DirNames[2]
               /\ Slug(k) = <<"c", "o", "u", "r", "s", "e", "_", "1">>


\* ------------------------------------------------------------------
\* lms/djangoapps/learner_recommendations: the recommendation endpoints
\* ------------------------------------------------------------------

\* most course keys the recommendation engine returns for one request
MaxKeys == 5

\* a Python value that may be None: no value, or exactly one
None == {}
Some(value) == {value}
The(optional) == CHOOSE value \in optional : TRUE

\* course keys ("edx+CS10") and course run keys ("course-v1:edx+CS10+2023_T2")
CourseKey(org, number) == <<org, number>>
CourseRunKey(course_key, run) == <<"course-v1", course_key, run>>
CourseOf(course_run_key) == course_run_key[2]

\* the keys the engine may recommend, in its order of preference
AmplitudeKeys == [i \in 1..MaxKeys |-> CourseKey("CS", i)]
\* the course an about page is for, its associated courses, and a course
\* that settings.CROSS_PRODUCT_RECOMMENDATIONS_KEYS does not mention
AboutCourse == CourseKey("HL", 0)
NoAssociations == CourseKey("No", 0)
AssociatedKeys == <<CourseKey("HL", 1), CourseKey("HL", 2)>>
CrossProductRecommendationsKeys == [k \in {AboutCourse} |-> AssociatedKeys]
get_cross_product_recommendations(course_key) ==
    IF course_key \in DOMAIN CrossProductRecommendationsKeys
    THEN Some(CrossProductRecommendationsKeys[course_key]) ELSE None

\* settings.GENERAL_RECOMMENDATIONS
GeneralKeys == [i \in 1..MaxKeys |-> CourseKey("GR", i)]
GeneralRecommendation(course_key) ==
    [course_key |-> course_key, title |-> <<"Title", course_key>>,
     logo_image_url |-> <<"logo", course_key>>,
     marketing_url |-> <<"marketing", course_key>>,
     course_type |-> "course", image |-> [src |-> <<"image", course_key>>], owners |-> <<>>,
     active_course_run_key |-> Some(CourseRunKey(course_key, "run"))]
GENERAL_RECOMMENDATIONS ==
    [i \in 1..MaxKeys |-> GeneralRecommendation(GeneralKeys[i])]

\* what the discovery service knows of a course; {} when it knows nothing
NoData == [found |-> FALSE]
Blocklist(countries) ==
    [restriction_type |-> "blocklist", countries |-> countries, states |-> {}]
Owner == [key |-> "org-1", name |-> "org 1", logo_image_url |-> <<"logo", "org-1">>]
CourseData(course_key, restriction, advertised) ==
    [found |-> TRUE, key |-> course_key, uuid |-> <<"uuid", course_key>>,
     title |-> <<"Title", course_key>>, image |-> [src |-> <<"image", course_key>>],
     url_slug |-> <<"slug", course_key>>, course_type |-> "executive-education",
     logo_image_url |-> <<"logo", course_key>>,
     marketing_url |-> <<"marketing", course_key>>,
     owners |-> <<Owner>>,
     course_runs |-> <<[key |-> CourseRunKey(course_key, "2023_T2"),
                        marketing_url |-> <<"marketing", course_key>>,
                        uuid |-> <<"run", course_key>>]>>,
     advertised_course_run_uuid |->
         IF advertised THEN Some(<<"run", course_key>>) ELSE None,
     location_restriction |-> restriction]

DiscoveryKeys == Range(AmplitudeKeys) \cup Range(AssociatedKeys)
\* a discovery service: which courses it does not know, which have no
\* advertised run, and which are blocked in China
Discovery(unknown, unadvertised, restricted) ==
    [k \in DiscoveryKeys |->
        IF k \in unknown THEN NoData
        ELSE CourseData(k,
                        IF k \in restricted THEN Some(Blocklist({"CN"}))
                                             ELSE None,
                        k \notin unadvertised)]
get_course_data(discovery, course_key) == discovery[course_key]

\* country_code_from_ip(...).upper()
CountryCodes == {"cn", "za"}
Upper(code) == [c \in CountryCodes |-> IF c = "cn" THEN "CN" ELSE "ZA"][code]

\* utils._has_country_restrictions
HasCountryRestrictions(course, country) ==
    /\ course.location_restriction /= None
    /\ The(course.location_restriction).restriction_type = "blocklist"
    /\ country \in The(course.location_restriction).countries

\* utils.get_active_course_run: the run that the course advertises
get_active_course_run(course) ==
    LET runs == SelectSeq(course.course_runs,
                          LAMBDA r : Some(r.uuid) =
                                     course.advertised_course_run_uuid)
    IN IF runs = <<>> THEN None ELSE Some(Head(runs))

\* utils.filter_recommended_courses: drops the courses of the user's
\* enrolments, asks discovery for the others in order and keeps those with
\* data, runs and no restriction for the country, up to recommendation_count
RECURSIVE FilterFrom(_, _, _, _, _)
FilterFrom(keys, discovery, country, count, acc) ==
    IF keys = <<>> \/ Len(acc) >= count THEN acc
    ELSE LET course == get_course_data(discovery, Head(keys))
             keep == /\ course.found
                     /\ course.course_runs /= <<>>
                     /\ ~HasCountryRestrictions(course, country)
         IN FilterFrom(Tail(keys), discovery, country, count,
                       IF keep THEN Append(acc, course) ELSE acc)

FilterKeepsEnrolled(enrolled, course_keys, discovery, country, count) ==
    FilterFrom(course_keys, discovery, country, count, <<>>)

filter_recommended_courses(enrolled, course_keys, discovery, country, count) ==
    LET enrolled_course_keys == {CourseOf(run) : run \in enrolled}
        remaining == SelectSeq(course_keys,
                               LAMBDA k : k \notin enrolled_course_keys)
    IN FilterFrom(remaining, discovery, country, count, <<>>)


\* ---- serializers.py ----

ActiveCourseRunSerializer(run) ==
    [key |-> run.key, marketingUrl |-> run.marketing_url]

CourseOwnersSerializer(owner) ==
    [key |-> owner.key, name |-> owner.name,
     logoImageUrl |-> owner.logo_image_url]

CourseImageSerializer(image) == [src |-> image.src]

get_prospectusPath(instance) == <<"course/", instance.url_slug>>

RecommendedCourseSerializer(instance) ==
    [key |-> instance.key, uuid |-> instance.uuid, title |-> instance.title,
     image |-> CourseImageSerializer(instance.image),
     prospectusPath |-> get_prospectusPath(instance),
     owners |-> [i \in DOMAIN instance.owners |->
             CourseOwnersSerializer(instance.owners[i])],
     activeCourseRun |-> ActiveCourseRunSerializer(instance.active_course_run)]

AboutPageProductSerializerKeyedByUuid(instance) ==
    [key |-> instance.uuid, uuid |-> instance.uuid, title |-> instance.title,
     image |-> CourseImageSerializer(instance.image),
     prospectusPath |-> get_prospectusPath(instance),
     owners |-> [i \in DOMAIN instance.owners |->
             CourseOwnersSerializer(instance.owners[i])],
     activeCourseRun |-> ActiveCourseRunSerializer(instance.active_course_run),
     courseType |-> instance.course_type]

AboutPageProductRecommendationsSerializer(instance) ==
    [key |-> instance.key, uuid |-> instance.uuid, title |-> instance.title,
     image |-> CourseImageSerializer(instance.image),
     prospectusPath |-> get_prospectusPath(instance),
     owners |-> [i \in DOMAIN instance.owners |->
             CourseOwnersSerializer(instance.owners[i])],
     activeCourseRun |-> ActiveCourseRunSerializer(instance.active_course_run),
     courseType |-> instance.course_type]

\* instance.get(key): None when the dictionary has no such key
Get(instance, key) ==
    IF key \in DOMAIN instance THEN instance[key] ELSE None

\* Python's truth value of an optional string or list
Truthy(optional) == optional /= None /\ optional /= Some(<<>>)

\* (variant: the active run key is used whenever it is not None)
get_courseRunKeyIfNotNone(instance) ==
    LET active_course_run_key == Get(instance, "active_course_run_key")
    IN IF active_course_run_key /= None
       THEN [value |-> The(active_course_run_key)]
       ELSE IF "course_runs" \notin DOMAIN instance
            THEN [exc |-> "TypeError"]
            ELSE IF instance.course_runs = <<>>
                 THEN [exc |-> "IndexError"]
                 ELSE [value |-> instance.course_runs[1].key]

\* the value returned, or the exception raised by indexing what is not there
get_courseRunKey(instance) ==
    LET active_course_run_key == Get(instance, "active_course_run_key")
    IN IF Truthy(active_course_run_key)
       THEN [value |-> The(active_course_run_key)]
       ELSE IF "course_runs" \notin DOMAIN instance
            THEN [exc |-> "TypeError"]
            ELSE IF instance.course_runs = <<>>
                 THEN [exc |-> "IndexError"]
                 ELSE [value |-> instance.course_runs[1].key]

LearnerDashboardProductRecommendationsSerializer(instance) ==
    [title |-> instance.title,
     courseRunKey |-> get_courseRunKey(instance).value,
     marketingUrl |-> instance.marketing_url,
     courseType |-> instance.course_type,
     image |-> CourseImageSerializer(instance.image),
     owners |-> [i \in DOMAIN instance.owners |->
             CourseOwnersSerializer(instance.owners[i])]]

AboutPageRecommendationsSerializer(instance) ==
    [courses |-> [i \in DOMAIN instance.courses |->
             RecommendedCourseSerializer(instance.courses[i])],
     isControl |-> Get(instance, "is_control")]

CrossProductRecommendationsSerializer(instance) ==
    [courses |-> [i \in DOMAIN instance.courses |->
             AboutPageProductRecommendationsSerializer(instance.courses[i])]]

AmplitudeRecommendationsSerializer(instance) ==
    [amplitudeCourses |->
         [i \in DOMAIN instance.amplitudeCourses |->
             LearnerDashboardProductRecommendationsSerializer(instance.amplitudeCourses[i])]]

CrossProductAndAmplitudeRecommendationsSerializer(instance) ==
    [crossProductCourses |->
         [i \in DOMAIN instance.crossProductCourses |->
             LearnerDashboardProductRecommendationsSerializer(instance.crossProductCourses[i])],
     amplitudeCourses |->
         [i \in DOMAIN instance.amplitudeCourses |->
             LearnerDashboardProductRecommendationsSerializer(instance.amplitudeCourses[i])]]

CourseSerializerSwapsUrls(instance) ==
    [courseKey |-> instance.course_key,
     logoImageUrl |-> instance.marketing_url,
     marketingUrl |-> instance.logo_image_url,
     title |-> instance.title]

CourseSerializer(instance) ==
    [courseKey |-> instance.course_key,
     logoImageUrl |-> instance.logo_image_url,
     marketingUrl |-> instance.marketing_url,
     title |-> instance.title]

DashboardSerializerCoercesNone(instance) ==
    [courses |-> [i \in DOMAIN instance.courses |->
             CourseSerializer(instance.courses[i])],
     isControl |-> IF Get(instance, "is_control") = None THEN Some(FALSE)
                   ELSE Get(instance, "is_control")]

DashboardRecommendationsSerializer(instance) ==
    [courses |-> [i \in DOMAIN instance.courses |->
             CourseSerializer(instance.courses[i])],
     isControl |-> Get(instance, "is_control")]


\* ---- views.py: what each endpoint answers ----

\* (variant: the event reports the truth value of is_control)
RecommendationsViewedAsBoolean(is_control) ==
    [event |-> "edx.bi.user.recommendations.viewed",
     is_control |-> Some(is_control = Some(TRUE))]

\* segment.track(user_id, "edx.bi.user.recommendations.viewed", properties)
RecommendationsViewed(is_control) ==
    [event |-> "edx.bi.user.recommendations.viewed", is_control |-> is_control]

Response(data, status, events) ==
    [status |-> status, data |-> data, events |-> events]

\* get_amplitude_course_recommendations: raises, or returns
\* [is_control, has_is_control, course_keys]
EngineRaises == [raises |-> TRUE]
EngineReturns(is_control, has_is_control, course_keys) ==
    [raises |-> FALSE, is_control |-> is_control,
     has_is_control |-> has_is_control, course_keys |-> course_keys]
IsControl(engine) ==
    IF engine.has_is_control THEN Some(engine.is_control) ELSE None

\* AboutPageRecommendationsView.get, past the waffle flag
AboutPageRecommendations(enterprise, engine, enrolled, discovery, country_code) ==
    IF enterprise THEN Response(None, 403, <<>>)
    ELSE IF engine.raises THEN Response(None, 404, <<>>)
    ELSE
    LET is_control == IsControl(engine)
        recommended ==
            IF is_control = Some(FALSE)
            THEN filter_recommended_courses(enrolled, engine.course_keys,
                                            discovery, Upper(country_code), 4)
            ELSE <<>>
        listed == [i \in 1..Len(recommended) |->
                       Put(recommended[i], "active_course_run",
                           recommended[i].course_runs[1])]
    IN Response(Some(AboutPageRecommendationsSerializer(
                         [courses |-> listed, is_control |-> is_control])),
                200, <<RecommendationsViewed(is_control)>>)

AboutPageRecommendationsUngated(flag, enterprise, engine, enrolled, discovery, country_code) ==
    AboutPageRecommendations(enterprise, engine, enrolled, discovery,
                             country_code)

\* AboutPageRecommendationsView.get
AboutPageRecommendationsView(flag, enterprise, engine, enrolled, discovery, country_code) ==
    IF ~flag THEN Response(None, 404, <<>>)
    ELSE AboutPageRecommendations(enterprise, engine, enrolled, discovery,
                                  country_code)

\* CrossProductRecommendationsView.get
CrossProductRecommendationsView(course_key, discovery, country_code) ==
    LET associated_course_keys == get_cross_product_recommendations(course_key)
        keys == IF associated_course_keys = None THEN <<>>
                ELSE The(associated_course_keys)
        course_data == [i \in 1..Len(keys) |->
                           get_course_data(discovery, keys[i])]
        available(course) ==
            /\ course.found
            /\ get_active_course_run(course) /= None
            /\ ~HasCountryRestrictions(course, Upper(country_code))
        filtered == SelectSeq(course_data, available)
        listed == [i \in 1..Len(filtered) |->
                       Put(filtered[i], "active_course_run",
                           The(get_active_course_run(filtered[i])))]
    IN Response(Some(CrossProductRecommendationsSerializer(
                         [courses |-> listed])), 200, <<>>)

\* the first entries of a list, as list[0:n] takes them
FirstN(list, n) == SubSeq(list, 1, IF Len(list) < n THEN Len(list) ELSE n)

\* ProductRecommendationsView._get_amplitude_recommendations
AmplitudeRecommendations(engine, enrolled, discovery, country) ==
    LET fallback_recommendations == FirstN(GENERAL_RECOMMENDATIONS, 4)
    IN IF engine.raises \/ engine.course_keys = <<>>
       THEN fallback_recommendations
       ELSE LET filtered ==
                    filter_recommended_courses(enrolled, engine.course_keys,
                                               discovery, country, 4)
            IN IF filtered = <<>> THEN fallback_recommendations ELSE filtered

\* ProductRecommendationsView._get_cross_product_recommendations
CrossProductRecommendations(course_key, discovery, country) ==
    LET associated_course_keys == get_cross_product_recommendations(course_key)
        keys == IF associated_course_keys = None THEN <<>>
                ELSE The(associated_course_keys)
        course_data == [i \in 1..Len(keys) |->
                           get_course_data(discovery, keys[i])]
        available(course) ==
            /\ course.found
            /\ course.course_runs /= <<>>
            /\ ~HasCountryRestrictions(course, country)
    IN SelectSeq(course_data, available)

\* ProductRecommendationsView.get, with a course id in the url or without
ProductRecommendationsView(course_id, masters, engine, enrolled, discovery, country_code) ==
    LET amplitude == IF masters THEN <<>>
                     ELSE AmplitudeRecommendations(engine, enrolled, discovery,
                                                   Upper(country_code))
        cross_product ==
            IF masters THEN <<>>
            ELSE CrossProductRecommendations(The(course_id), discovery,
                                             Upper(country_code))
    IN IF course_id = None
       THEN Response(Some(AmplitudeRecommendationsSerializer(
                              [amplitudeCourses |-> amplitude])), 200, <<>>)
       ELSE Response(Some(CrossProductAndAmplitudeRecommendationsSerializer(
                              [crossProductCourses |-> cross_product,
                               amplitudeCourses |-> amplitude])), 200, <<>>)

\* DashboardRecommendationsApiView._course_data
DashboardCourseData(course) ==
    [course_key |-> course.key, title |-> course.title,
     logo_image_url |-> course.logo_image_url,
     marketing_url |-> course.marketing_url]

\* DashboardRecommendationsApiView.get
DashboardRecommendationsApiView(flag, fallback_flag, masters, engine, enrolled, discovery, country_code) ==
    IF ~flag THEN Response(None, 404, <<>>)
    ELSE
    LET answer(is_control, listed) ==
            Response(Some(DashboardRecommendationsSerializer(
                              [courses |-> listed, is_control |-> is_control])),
                     200, <<RecommendationsViewed(is_control)>>)
        general_recommendations ==
            IF fallback_flag THEN GENERAL_RECOMMENDATIONS ELSE <<>>
    IN IF masters THEN answer(None, <<>>)
       ELSE IF engine.raises THEN answer(None, general_recommendations)
       ELSE
       LET is_control == IsControl(engine)
           filtered ==
               filter_recommended_courses(enrolled, engine.course_keys,
                                          discovery, Upper(country_code), 5)
       IN IF is_control /= Some(FALSE) \/ engine.course_keys = <<>>
             \/ filtered = <<>>
          THEN answer(is_control, general_recommendations)
          ELSE answer(is_control,
                      [i \in 1..Len(filtered) |->
                          DashboardCourseData(filtered[i])])

\* ---- the requests ----

Engines ==
    {EngineRaises} \cup
    {EngineReturns(is_control, has_is_control, FirstN(AmplitudeKeys, n)) :
        is_control \in BOOLEAN, has_is_control \in BOOLEAN, n \in 0..MaxKeys}

\* the course runs a user is enrolled in
RunsOf(course_keys, indices) ==
    {CourseRunKey(course_keys[i], "2023_T2") : i \in indices}
Enrolments ==
    {RunsOf(AmplitudeKeys, indices) :
        indices \in {{}, 1..2, 2..(MaxKeys - 1), 1..MaxKeys}}

Discoveries ==
    {Discovery(unknown, unadvertised, restricted) :
        unknown \in {{}, {AssociatedKeys[2], AmplitudeKeys[2]}},
        unadvertised \in {{}, {AssociatedKeys[1]}},
        restricted \in {{}, {AssociatedKeys[1], AmplitudeKeys[1]},
                        Range(AssociatedKeys) \cup Range(AmplitudeKeys)}}

\* the endpoints keep nothing between requests: a behaviour serves one
Idle == ret = NoRet

Served(op, request, response) ==
    /\ ret' = [op |-> op, request |-> request, response |-> response]
    /\ UNCHANGED <<inputs, pc, idx, default_class, modules, courses, inserted,
                   descs, isys, stack, log>>

AboutPageRecommendationsGet ==
    /\ Idle
    /\ \E flag \in BOOLEAN, enterprise \in BOOLEAN, engine \in Engines,
          enrolled \in Enrolments, discovery \in Discoveries,
          country_code \in CountryCodes :
          Served("about_page_recommendations",
                 [flag |-> flag, enterprise |-> enterprise, engine |-> engine,
                  enrolled |-> enrolled, discovery |-> discovery,
                  country_code |-> country_code],
                 AboutPageRecommendationsView(flag, enterprise, engine,
                                              enrolled, discovery,
                                              country_code))

CrossProductRecommendationsGet ==
    /\ Idle
    /\ \E course_key \in {AboutCourse, NoAssociations},
          discovery \in Discoveries, country_code \in CountryCodes :
          Served("cross_product_recommendations",
                 [course_key |-> course_key, discovery |-> discovery,
                  country_code |-> country_code],
                 CrossProductRecommendationsView(course_key, discovery,
                                                 country_code))

ProductRecommendationsGet ==
    /\ Idle
    /\ \E course_id \in {None, Some(AboutCourse), Some(NoAssociations)},
          masters \in BOOLEAN, engine \in Engines, enrolled \in Enrolments,
          discovery \in Discoveries, country_code \in CountryCodes :
          Served("product_recommendations",
                 [course_id |-> course_id, masters |-> masters,
                  engine |-> engine, enrolled |-> enrolled,
                  discovery |-> discovery, country_code |-> country_code],
                 ProductRecommendationsView(course_id, masters, engine,
                                            enrolled, discovery, country_code))

DashboardRecommendationsGet ==
    /\ Idle
    /\ \E flag \in BOOLEAN, fallback_flag \in BOOLEAN, masters \in BOOLEAN,
          engine \in Engines, enrolled \in Enrolments,
          discovery \in Discoveries, country_code \in CountryCodes :
          Served("dashboard_recommendations",
                 [flag |-> flag, fallback_flag |-> fallback_flag,
                  masters |-> masters, engine |-> engine,
                  enrolled |-> enrolled, discovery |-> discovery,
                  country_code |-> country_code],
                 DashboardRecommendationsApiView(flag, fallback_flag, masters,
                                                 engine, enrolled, discovery,
                                                 country_code))

InitViews ==
    /\ fs = [d \in Dirs |-> Absent]
    /\ listing = <<>>
    /\ opts = [eager |-> FALSE, default_class |-> NoClass,
               course_dirs |-> AllCourseDirs]
    /\ InitState

NextViews ==
    \/ AboutPageRecommendationsGet
    \/ CrossProductRecommendationsGet
    \/ ProductRecommendationsGet
    \/ DashboardRecommendationsGet

SpecViews == InitViews /\ [][NextViews]_vars


\* ------------------------------------------------------------------
\* properties of the recommendation endpoints
\* ------------------------------------------------------------------

\* C22: with its waffle flag off, the about-page endpoint and the dashboard
\* endpoint each answer 404 and no response data, whatever the user, the
\* recommendation engine and the discovery service would have produced.
C22_FlagGate ==
    (/\ ret.op \in {"about_page_recommendations", "dashboard_recommendations"}
     /\ ~ret.request.flag)
    => /\ ret.response.status = 404
       /\ ret.response.data = None

\* the flag is off for a user the engine has four courses for
C22_Witness ==
    /\ ret.op = "about_page_recommendations"
    /\ ~ret.request.flag
    /\ ~ret.request.enterprise
    /\ ret.request.engine = EngineReturns(FALSE, TRUE, FirstN(AmplitudeKeys, 4))
    /\ ret.request.enrolled = {}
    /\ ret.response.status = 404


\* the answer of the dashboard tests to a request that falls back
SERIALIZED_GENERAL_RECOMMENDATIONS ==
    [i \in 1..Len(GENERAL_RECOMMENDATIONS) |->
        [courseKey |-> GENERAL_RECOMMENDATIONS[i]["course_key"],
         logoImageUrl |-> GENERAL_RECOMMENDATIONS[i]["logo_image_url"],
         marketingUrl |-> GENERAL_RECOMMENDATIONS[i]["marketing_url"],
         title |-> GENERAL_RECOMMENDATIONS[i]["title"]]]

\* the engine was asked and left the request without personalized courses
Unavailable(request) ==
    \/ request.engine.raises
    \/ request.engine.course_keys = <<>>
    \/ request.engine.has_is_control /\ request.engine.is_control
    \/ filter_recommended_courses(request.enrolled, request.engine.course_keys,
                                  request.discovery,
                                  Upper(request.country_code), 5) = <<>>

\* C23: with the dashboard flag on, a request for which the engine is asked
\* and personalized recommendations are unavailable (the engine raises or
\* returns no keys, the user is in the control group, or filtering leaves no
\* course) is answered 200 with the configured general recommendations when
\* the fallback flag is on and with an empty list of courses when it is off.
C23_DashboardFallback ==
    (/\ ret.op = "dashboard_recommendations"
     /\ ret.request.flag
     /\ ~ret.request.masters
     /\ Unavailable(ret.request))
    => /\ ret.response.status = 200
       /\ The(ret.response.data).courses =
              IF ret.request.fallback_flag
              THEN SERIALIZED_GENERAL_RECOMMENDATIONS ELSE <<>>

\* every recommended course is one the user is enrolled in already, and the
\* general recommendations are served instead
C23_Witness ==
    /\ ret.op = "dashboard_recommendations"
    /\ ret.request.flag
    /\ ret.request.fallback_flag
    /\ ~ret.request.masters
    /\ ret.request.engine = EngineReturns(FALSE, TRUE, AmplitudeKeys)
    /\ ret.request.enrolled = RunsOf(AmplitudeKeys, 1..MaxKeys)
    /\ The(ret.response.data).courses = SERIALIZED_GENERAL_RECOMMENDATIONS
    /\ SERIALIZED_GENERAL_RECOMMENDATIONS /= <<>>


\* the associated courses of the request that discovery has data for, that
\* advertise one of their runs and that the requester's country may see
Recommendable(request) ==
    LET associated ==
            IF request.course_key \in DOMAIN CrossProductRecommendationsKeys
            THEN Range(CrossProductRecommendationsKeys[request.course_key])
            ELSE {}
        country == Upper(request.country_code)
    IN {k \in associated :
           LET course == request.discovery[k]
           IN /\ course.found
              /\ \E run \in Range(course.course_runs) :
                     course.advertised_course_run_uuid = {run.uuid}
              /\ \A restriction \in course.location_restriction :
                     country \notin restriction.countries}

\* C24: the cross-product endpoint always answers 200, and its courses are
\* exactly, each once, the associated courses that discovery returned data
\* for, that have an advertised course run and that no location restriction
\* blocks for the requester's country; none when no course is associated.
C24_CrossProductFiltering ==
    ret.op = "cross_product_recommendations"
    => LET listed == The(ret.response.data).courses
       IN /\ ret.response.status = 200
          /\ {listed[i].key : i \in 1..Len(listed)} = Recommendable(ret.request)
          /\ Len(listed) = Cardinality(Recommendable(ret.request))
          /\ ret.request.course_key = NoAssociations => listed = <<>>

\* of two associated courses one is blocked in the requester's country
C24_Witness ==
    /\ ret.op = "cross_product_recommendations"
    /\ ret.request.course_key = AboutCourse
    /\ ret.request.country_code = "cn"
    /\ ret.request.discovery =
           Discovery({}, {}, {AssociatedKeys[1], AmplitudeKeys[1]})
    /\ Len(The(ret.response.data).courses) = 1
    /\ The(ret.response.data).courses[1].key = AssociatedKeys[2]


\* C25: a user enrolled in the UT Austin masters program is answered 200 with
\* every list of recommendations empty, by the product recommendations
\* endpoint with or without a course key and by the dashboard endpoint (its
\* flag on), there with isControl None; general recommendations are never
\* served to them.
C25_MastersExclusion ==
    /\ (ret.op = "product_recommendations" /\ ret.request.masters)
       => /\ ret.response.status = 200
          /\ \A list \in DOMAIN The(ret.response.data) :
                 The(ret.response.data)[list] = <<>>
          /\ "amplitudeCourses" \in DOMAIN The(ret.response.data)
          /\ ret.request.course_id /= None
             => "crossProductCourses" \in DOMAIN The(ret.response.data)
    /\ (/\ ret.op = "dashboard_recommendations"
        /\ ret.request.flag
        /\ ret.request.masters)
       => /\ ret.response.status = 200
          /\ The(ret.response.data).courses = <<>>
          /\ The(ret.response.data).isControl = None

\* a masters-program user for whom the engine would fail and the fallback
\* flag is on
C25_Witness ==
    /\ ret.op = "dashboard_recommendations"
    /\ ret.request.flag
    /\ ret.request.fallback_flag
    /\ ret.request.masters
    /\ ret.request.engine = EngineRaises
    /\ The(ret.response.data).courses = <<>>
    /\ GENERAL_RECOMMENDATIONS /= <<>>


\* the courses of a served list, by the course of each entry's run key
ListedCourses(listed) == {CourseOf(listed[i].courseRunKey) : i \in 1..Len(listed)}

\* the courses that discovery reports as blocked in the requester's country
RestrictedFor(request) ==
    {k \in DOMAIN request.discovery :
        /\ request.discovery[k].found
        /\ \E restriction \in request.discovery[k].location_restriction :
               Upper(request.country_code) \in restriction.countries}

LoadingDir ==
    IF pc = "load" THEN listing[idx] ELSE descs[stack[1].desc].data_dir

\* every descriptor that the index or the catalog holds has the name of an
\* existing course directory as its data_dir, and its location is in the
\* organization and course of that directory
DataDirInjected ==
    \A id \in Range(modules) \cup Range(courses) :
        /\ "data_dir" \in DOMAIN descs[id]
        /\ descs[id].data_dir \in Dirs
        /\ fs[descs[id].data_dir].kind = "file"
        /\ descs[id].data_dir \in DOMAIN isys
        /\ descs[id].location.org = isys[descs[id].data_dir].org
        /\ descs[id].location.course = isys[descs[id].data_dir].course

\* an index entry that a step makes or replaces holds a descriptor whose
\* data_dir is the directory being loaded, and no data_dir changes afterwards
DataDirOfLoad ==
    /\ \A l \in DOMAIN modules' :
          (l \notin DOMAIN modules \/ modules'[l] /= modules[l]) =>
              /\ pc = "load" \/ pc = "resolve"
              /\ descs'[modules'[l]].data_dir = LoadingDir
              /\ pc = "load" => descs'[modules'[l]].data_dir = listing[idx]
    /\ \A id \in 1..Len(descs) : descs'[id].data_dir = descs[id].data_dir

\* C31: every descriptor in the index has as its data_dir the name of the
\* directory of the course whose load registered it, whether the load was
\* that of __init__ or a later resolution of children, and it has it in
\* every state in which the index holds it, from its registration on
C31_MetadataInjection ==
    /\ []DataDirInjected
    /\ [][DataDirOfLoad]_vars

\* two directories were loaded, the root of one declaring a course that is
\* not its directory name; a child resolved after construction has the
\* directory of its course as data_dir
C31_Witness ==
    /\ pc = "ready"
    /\ ~opts.eager
    /\ ret.op = "get_children"
    /\ \E l, m \in DOMAIN modules :
          /\ descs[modules[l]].data_dir = DirNames[1]
          /\ descs[modules[m]].data_dir = DirNames[2]
          /\ Len(descs[modules[m]].node) = 2
          /\ m.course = CourseX
          /\ modules[m] > modules[l]



\* the descriptors at a location, in the order in which they were made
MadeAt(location) == {id \in 1..Len(descs) : descs[id].location = location}

\* the key sets of the index and of the catalog only grow, and a step in
\* which a load is given up takes nothing out of the index
KeysOnlyGrow ==
    /\ DOMAIN modules \subseteq DOMAIN modules'
    /\ DOMAIN courses \subseteq DOMAIN courses'
    /\ FailedDirs' /= FailedDirs => modules' = modules

DeclaredPair(d) ==
    LET root == fs[d].text
    IN  <<IF "org" \in DOMAIN root.attrib THEN root.attrib["org"]
          ELSE <<"e", "d", "x">>,
          IF "course" \in DOMAIN root.attrib THEN root.attrib["course"]
          ELSE d>>

\* descriptors of courses of different organization or course are at
\* different locations
NamespacedByCourse ==
    \A i, j \in 1..Len(descs) :
        DeclaredPair(descs[i].data_dir) /= DeclaredPair(descs[j].data_dir)
            => descs[i].location /= descs[j].location

\* an index entry is replaced only by a descriptor of a course of the same
\* organization and course
ReplacedWithinNamespace ==
    \A l \in DOMAIN modules :
        modules'[l] /= modules[l] =>
            DeclaredPair(descs'[modules'[l]].data_dir)
                = DeclaredPair(descs[modules[l]].data_dir)

\* C33: two courses of one store whose (organization, course) pairs differ
\* never have descriptors at the same location, also when their nodes have
\* the same tags and slugs, and the load of one never replaces an index
\* entry of the other
C33_CrossCourseNamespacing ==
    /\ []NamespacedByCourse
    /\ [][ReplacedWithinNamespace]_vars

\* two courses of different pairs each have a node p with the slug p_2 and
\* a root with the slug course_1: four index entries
C33_Witness ==
    /\ pc = "ready"
    /\ DOMAIN courses = {DirNames[1], DirNames[2]}
    /\ DeclaredPair(DirNames[1]) /= DeclaredPair(DirNames[2])
    /\ \E i, j \in Range(modules) :
          /\ descs[i].data_dir = DirNames[1]
          /\ descs[j].data_dir = DirNames[2]
          /\ descs[i].xml.tag = PTag
          /\ descs[j].xml.tag = PTag
          /\ Slug(i) = Slug(j)
    /\ Cardinality(DOMAIN modules) = 4



\* ------------------------------------------------------------------
\* further properties of the recommendation endpoints
\* ------------------------------------------------------------------

\* what the engine reported to the view about the control group: a value
\* when it was asked (the user is not in the masters program), returned and
\* said has_is_control, else nothing
ReportedIsControl(request) ==
    IF ~request.masters /\ ~request.engine.raises
       /\ request.engine.has_is_control
    THEN {request.engine.is_control}
    ELSE {}

\* C34: a dashboard recommendations request served with the flag on emits
\* exactly one event, named edx.bi.user.recommendations.viewed, whose
\* is_control is the is_control of the engine when the engine reported
\* has_is_control, and None otherwise
C34_RecommendationsViewedEvent ==
    (ret.op = "dashboard_recommendations" /\ ret.request.flag)
    => /\ Len(ret.response.events) = 1
       /\ ret.response.events[1].event = "edx.bi.user.recommendations.viewed"
       /\ ret.response.events[1].is_control = ReportedIsControl(ret.request)

\* the engine returns is_control True without has_is_control, and courses:
\* one event with is_control None
C34_Witness ==
    /\ ret.op = "dashboard_recommendations"
    /\ ret.request.flag
    /\ ~ret.request.masters
    /\ ret.request.engine = EngineReturns(TRUE, FALSE, AmplitudeKeys)
    /\ ret.response.events =
           <<[event |-> "edx.bi.user.recommendations.viewed",
              is_control |-> {}]>>
    /\ ret.response.status = 200



\* C35: process_xml on markup that is not well-formed raises (to the loop of
\* __init__, which gives the course up, or to the caller that asked for the
\* children) and leaves the index, the descriptors, the unnamed counter and
\* the used-slug set of every course as they were
C35_ParseFailureChangesNothing ==
    [][((pc = "load" \/ pc = "resolve")
        /\ ~Head(stack[Len(stack)].pending).wf) =>
          /\ modules' = modules
          /\ descs' = descs
          /\ \A d \in DOMAIN isys :
                /\ isys'[d].unnamed_modules = isys[d].unnamed_modules
                /\ isys'[d].used_slugs = isys[d].used_slugs
          /\ DOMAIN isys' = DOMAIN isys
          /\ courses' = courses
          /\ stack' = <<>>
          /\ pc = "load" =>
                /\ stack[1].dir \in FailedDirs' \ FailedDirs
                /\ pc' /= "load"
          /\ pc = "resolve" =>
                ret' = [op |-> "get_children", exc |-> "XMLSyntaxError"]]_vars

\* the children of a root were asked for: the first was made, the second is
\* not well-formed; the course has the counter and the slugs of two nodes
C35_Witness ==
    /\ pc = "ready"
    /\ ret = [op |-> "get_children", exc |-> "XMLSyntaxError"]
    /\ \E d \in DOMAIN courses :
          /\ fs[d].text.children = <<P, Malformed>>
          /\ isys[d].unnamed_modules = 2
          /\ Cardinality(isys[d].used_slugs) = 2
          /\ Made(descs, d) = {<<1>>, <<1, 1>>}



\* a default_class argument that names a class which cannot be loaded
BadDefaultClass ==
    opts.default_class /= <<>> /\ opts.default_class /= <<"o", "k">>

\* C36: when a default_class is given and cannot be loaded, the constructor
\* raises before it looks at any course directory: no directory is listed,
\* loaded, skipped or logged as failed, index and catalog are empty and stay
\* so; the constructor raises for no other reason
C36_DefaultClassFailureRaises ==
    /\ [](BadDefaultClass =>
             /\ pc = "start" \/ pc = "raised"
             /\ idx = 1
             /\ modules = Empty /\ courses = Empty
             /\ descs = <<>> /\ isys = Empty
             /\ log = <<>>)
    /\ [](pc = "raised" =>
             /\ BadDefaultClass
             /\ ret = [op |-> "__init__", exc |-> "ImportError"])
    /\ [][(BadDefaultClass /\ pc = "start") => pc' = "raised"]_vars
    /\ [][pc /= "raised"]_vars

\* the constructor raised although every directory holds a course that an
\* eager store would have loaded
C36_Witness ==
    /\ pc = "raised"
    /\ opts.default_class = BadClass
    /\ opts.eager
    /\ opts.course_dirs.none
    /\ \A d \in Dirs :
          /\ fs[d].kind = "file"
          /\ fs[d].text.wf
          /\ fs[d].text.children = <<P>>
    /\ courses = Empty



\* the descriptors that get_item can return, whatever location it is asked
Reachable ==
    {get_item(l).value : l \in {k \in DOMAIN modules \cup Probes :
                                   get_item(k).exc = "none"}}

\* C37: the index holds one descriptor for a location: of the descriptors
\* of nodes that produced the same location (by equal tag and slug in one
\* course, or in two directories declaring the same organization and course)
\* the one registered last; get_item returns that one and returns none of
\* the earlier ones, for any location
C37_LastWriterWins ==
    /\ \A l \in DOMAIN modules :
          /\ modules[l] \in MadeAt(l)
          /\ \A id \in MadeAt(l) : id <= modules[l]
          /\ get_item(l).value = modules[l]
    /\ \A id \in 1..Len(descs) :
          /\ descs[id].location \in DOMAIN modules
          /\ (\E later \in MadeAt(descs[id].location) : later > id)
                => id \notin Reachable
    /\ ret.op = "get_item" /\ ret.exc = "none" =>
          \A id \in MadeAt(ret.arg) : id <= ret.value

\* two nodes of one course with the same tag and slug, and the roots of two
\* directories that declare the same organization and course: get_item on
\* the location of the roots returned the root made last
C37_Witness ==
    /\ pc = "ready"
    /\ ret.op = "get_item"
    /\ ret.exc = "none"
    /\ descs[ret.value].node = <<1>>
    /\ \E id \in MadeAt(ret.arg) :
          /\ id < ret.value
          /\ descs[id].data_dir /= descs[ret.value].data_dir
    /\ \E l \in DOMAIN modules :
          \E id \in MadeAt(l) :
              /\ id < modules[l]
              /\ descs[id].data_dir = descs[modules[l]].data_dir
              /\ descs[id].node /= descs[modules[l]].node



\* the descriptors of a course whose slug process_xml assigned (their nodes
\* carry no slug attribute), by the tag of their node
Assigned(d, tags) ==
    {id \in 1..Len(descs) :
        /\ descs[id].data_dir = d
        /\ descs[id].xml.tag \in tags
        /\ "slug" \notin DOMAIN NodeAt(<<fs[d].text>>, descs[id].node).attrib}

\* C38: a course has one used-slug set for the nodes of all tags: every slug
\* that process_xml assigned is in it whatever the tag, and a node whose
\* name normalizes to the slug assigned to an earlier node of another tag
\* collides: the counter is incremented and its slug is the candidate with
\* the counter appended, not the candidate
C38_SlugsSharedAcrossTags ==
    /\ [](\A d \in DOMAIN isys :
             \A id \in Assigned(d, {PTag, QTag, CourseTag}) :
                 Slug(id) \in isys[d].used_slugs)
    /\ [][\A id \in (Len(descs) + 1)..Len(descs') :
             LET d == descs'[id].data_dir
                 source == NodeAt(<<fs[d].text>>, descs'[id].node)
                 candidate == LocationClean(source.attrib["name"])
                 others == {PTag, QTag, CourseTag} \ {source.tag}
             IN  (/\ "slug" \notin DOMAIN source.attrib
                  /\ "name" \in DOMAIN source.attrib
                  /\ source.attrib["name"] /= <<>>
                  /\ \E earlier \in Assigned(d, others) :
                         Slug(earlier) = candidate)
                 => /\ isys'[d].unnamed_modules = isys[d].unnamed_modules + 1
                    /\ descs'[id].xml.attrib["slug"] =
                           candidate \o <<"_">> \o Str(isys'[d].unnamed_modules)
                    /\ descs'[id].xml.attrib["slug"] /= candidate
                    /\ descs'[id].location.category = source.tag]_vars

\* <p name="a"/> has the slug a, and <q name="a"/> after it the slug a_2
C38_Witness ==
    \E i, j \in 1..Len(descs) :
        /\ i < j
        /\ descs[i].data_dir = descs[j].data_dir
        /\ descs[i].xml.tag = PTag
        /\ descs[j].xml.tag = QTag
        /\ NodeAt(<<fs[descs[i].data_dir].text>>, descs[i].node).attrib
               = Attr("name", NameA)
        /\ NodeAt(<<fs[descs[j].data_dir].text>>, descs[j].node).attrib
               = Attr("name", NameA)
        /\ Slug(i) = <<"a">>
        /\ Slug(j) = <<"a", "_", "2">>
        /\ descs[i].location /= [descs[j].location EXCEPT !.name = <<"a">>]



\* the slug and the counter that a node without slug and name gets from a
\* course whose counter is count and whose used slugs are used
Synthesized(tag, count, used) ==
    LET candidate == tag \o <<"_">> \o Str(count + 1)
    IN  IF candidate \in used
        THEN [slug |-> candidate \o <<"_">> \o Str(count + 2),
              count |-> count + 2]
        ELSE [slug |-> candidate, count |-> count + 1]

\* C39: a node without slug attribute whose name attribute is present and
\* empty gets what a node without name attribute gets: the counter is
\* incremented, the candidate is '<tag>_<counter>' (suffixed once more when
\* it is used already), and the slug is never empty
C39_EmptyNameIsNoName ==
    [][\A id \in (Len(descs) + 1)..Len(descs') :
          LET d == descs'[id].data_dir
              source == NodeAt(<<fs[d].text>>, descs'[id].node)
              unnamed == Synthesized(source.tag, isys[d].unnamed_modules,
                                     isys[d].used_slugs)
          IN  (/\ "slug" \notin DOMAIN source.attrib
               /\ "name" \in DOMAIN source.attrib
               /\ source.attrib["name"] = <<>>)
              => /\ descs'[id].xml.attrib["slug"] = unnamed.slug
                 /\ descs'[id].location.name = unnamed.slug
                 /\ isys'[d].unnamed_modules = unnamed.count
                 /\ isys'[d].used_slugs = isys[d].used_slugs \cup {unnamed.slug}
                 /\ descs'[id].xml.attrib["slug"] /= <<>>
                 /\ descs'[id].xml.attrib["name"] = <<>>]_vars

\* <course><p name=""/><p/></course>: the slugs are course_1, p_2 and p_3
C39_Witness ==
    \E i, j \in 1..Len(descs) :
        /\ descs[i].data_dir = descs[j].data_dir
        /\ NodeAt(<<fs[descs[i].data_dir].text>>, descs[i].node).attrib
               = Attr("name", <<>>)
        /\ NodeAt(<<fs[descs[j].data_dir].text>>, descs[j].node).attrib
               = NoAttrib
        /\ Slug(i) = <<"p", "_", "2">>
        /\ Slug(j) = <<"p", "_", "3">>
        /\ isys[descs[i].data_dir].unnamed_modules = 3



\* ------------------------------------------------------------------
\* LearnerDashboardProductRecommendationsSerializer on its own
\* ------------------------------------------------------------------

\* most course runs of a serialized instance
MaxRuns == 2

\* the instances handed to the serializer: dictionaries with or without
\* active_course_run_key (None, empty or a key) and with or without
\* course_runs (a list of runs, possibly empty)
RunKeys == {CourseRunKey(AmplitudeKeys[i], "2023_T2") : i \in 1..MaxKeys}
ActiveCourseRunKeys ==
    {[present |-> FALSE, value |-> None]}
    \cup {[present |-> TRUE, value |-> v] :
             v \in {None, Some(<<>>)} \cup {Some(k) : k \in RunKeys}}
CourseRunsLists ==
    {[present |-> FALSE, value |-> <<>>]}
    \cup {[present |-> TRUE,
           value |-> [i \in DOMAIN keys |-> [key |-> keys[i]]]] :
             keys \in UNION {[1..n -> RunKeys] : n \in 0..MaxRuns}}
Instance(active, runs) ==
    [k \in {"title"}
           \cup (IF active.present THEN {"active_course_run_key"} ELSE {})
           \cup (IF runs.present THEN {"course_runs"} ELSE {}) |->
        IF k = "active_course_run_key" THEN active.value
        ELSE IF k = "course_runs" THEN runs.value
        ELSE <<"Title">>]

\* the serializer computes its courseRunKey field for an instance
GetCourseRunKey ==
    /\ Idle
    /\ \E active \in ActiveCourseRunKeys, runs \in CourseRunsLists :
          Served("get_courseRunKey", Instance(active, runs),
                 get_courseRunKey(Instance(active, runs)))

NextSerializer == GetCourseRunKey

SpecSerializer == InitViews /\ [][NextSerializer]_vars

\* C40: get_courseRunKey returns the active_course_run_key of the instance
\* when that is present and not empty, else the key of the first of its
\* course_runs; with neither an active key nor a first course run (the list
\* is empty or absent) it returns nothing and raises
C40_CourseRunKeySelection ==
    ret.op = "get_courseRunKey" =>
        LET instance == ret.request
            active == /\ "active_course_run_key" \in DOMAIN instance
                      /\ instance["active_course_run_key"] /= {}
                      /\ instance["active_course_run_key"] /= {<<>>}
            runs == IF "course_runs" \in DOMAIN instance
                    THEN instance["course_runs"] ELSE <<>>
        IN  IF active
            THEN ret.response = [value |-> CHOOSE key \in
                                     instance["active_course_run_key"] : TRUE]
            ELSE IF Len(runs) > 0
            THEN ret.response = [value |-> runs[1]["key"]]
            ELSE /\ "value" \notin DOMAIN ret.response
                 /\ "exc" \in DOMAIN ret.response
                 /\ ret.response.exc \in {"TypeError", "IndexError"}

\* an instance whose active_course_run_key is the empty string and whose
\* course_runs is an empty list: indexing the list raises
C40_Witness ==
    /\ ret.op = "get_courseRunKey"
    /\ ret.request =
           [k \in {"title", "active_course_run_key", "course_runs"} |->
               IF k = "active_course_run_key" THEN {<<>>}
               ELSE IF k = "course_runs" THEN <<>> ELSE <<"Title">>]
    /\ ret.response = [exc |-> "IndexError"]

====
